---- MODULE Spec2Model ----
(***************************************************************************)
(* A model of the entity-resolution engine of koosha/ERX:                  *)
(*   - FastEntityResolver       (src/src/run_entity_resolution_fast.py)    *)
(*   - EntityResolver           (src/src/core/entity_resolution.py)        *)
(*   - EntityResolutionPipeline (src/src/core/entity_resolution_pipeline.py)*)
(*                                                                         *)
(* Strings are sequences of one-character strings, so that normalisation,  *)
(* prefixes, splitting and edit-distance ratios are computed, not assumed. *)
(* Floating-point scores are kept as exact integers: a similarity of the   *)
(* fast resolver is counted in thousandths (0.7 is 700), a confidence is a *)
(* fraction <<numerator, denominator>> of thousandths.  Where the code     *)
(* compares two floats the model compares the exact values; the inputs are *)
(* such that no comparison of the code is decided by a rounding error.     *)
(***************************************************************************)
EXTENDS Integers, Sequences, FiniteSets, TLC

\* ------------------------------------------------------------------ bounds
\* The longest input list a run is given.
MaxParties == 3
\* How many times resolve_entities_fast is called on one resolver instance.
MaxRuns == 2

\* --------------------------------------------------------------- helpers
Max(a, b) == IF a >= b THEN a ELSE b
Min(a, b) == IF a <= b THEN a ELSE b

Range(s) == {s[i] : i \in 1..Len(s)}

\* A sequence written as a function [i \in 1..n |-> e], as the tuple of its
\* values (the same sequence, held by its elements).
AsTuple(f) == <<>> \o f

RECURSIVE SumSeq(_)
SumSeq(s) == IF s = <<>> THEN 0 ELSE Head(s) + SumSeq(Tail(s))

RECURSIVE Concat(_)
Concat(ss) == IF ss = <<>> THEN <<>> ELSE Head(ss) \o Concat(Tail(ss))

\* All sequences over S of length at most n.
SeqsUpTo(S, n) == UNION {[1..k -> S] : k \in 0..n}

\* ------------------------------------------------------ Python values
\* None (also pandas' NaN: falsy under "x and pd.notna(x)") and a missing key.
None == <<"<None>">>
NoKey == <<"<absent>">>

\* Python truthiness of a field value followed by pd.notna: a real,
\* non-empty string.
IsPresent(v) == v # NoKey /\ v # None /\ v # <<>>

Digits == {"0", "1", "2", "3", "4", "5", "6", "7", "8", "9"}
Lowers == {"a", "b", "c", "d", "e", "f", "g", "h", "i", "j", "k", "l", "m",
           "n", "o", "p", "q", "r", "s", "t", "u", "v", "w", "x", "y", "z"}
Uppers == {"A", "B", "C", "D", "E", "F", "G", "H", "I", "J", "K", "L", "M",
           "N", "O", "P", "Q", "R", "S", "T", "U", "V", "W", "X", "Y", "Z"}
Spaces == {" "}

LowerOf ==
    [c \in Uppers |->
        CASE c = "A" -> "a" [] c = "B" -> "b" [] c = "C" -> "c" [] c = "D" -> "d"
          [] c = "E" -> "e" [] c = "F" -> "f" [] c = "G" -> "g" [] c = "H" -> "h"
          [] c = "I" -> "i" [] c = "J" -> "j" [] c = "K" -> "k" [] c = "L" -> "l"
          [] c = "M" -> "m" [] c = "N" -> "n" [] c = "O" -> "o" [] c = "P" -> "p"
          [] c = "Q" -> "q" [] c = "R" -> "r" [] c = "S" -> "s" [] c = "T" -> "t"
          [] c = "U" -> "u" [] c = "V" -> "v" [] c = "W" -> "w" [] c = "X" -> "x"
          [] c = "Y" -> "y" [] c = "Z" -> "z"]

\* A letter outside ASCII: the capital I with a dot above, a word character
\* whose lower case is two characters, "i" and the combining dot above,
\* which is neither a word character nor white space.
DottedI == "U+0130"
CombiningDot == "U+0307"

\* str.lower()
LowerChars(c) ==
    IF c \in Uppers THEN <<LowerOf[c]>>
    ELSE IF c = DottedI THEN <<"i", CombiningDot>>
    ELSE <<c>>
StrLower(s) == Concat(AsTuple([i \in 1..Len(s) |-> LowerChars(s[i])]))

\* re.sub(r'[^\w\s]', ' ', s): every character that is neither a word
\* character nor white space becomes a blank.
IsWordChar(c) == c \in Digits \cup Lowers \cup Uppers \cup {"_", DottedI}
SubNonWord(s) ==
    AsTuple([i \in 1..Len(s) |-> IF IsWordChar(s[i]) \/ s[i] \in Spaces THEN s[i] ELSE " "])

\* re.sub(r'\s+', ' ', s).strip(): runs of white space collapse to one blank,
\* leading and trailing white space goes.
RECURSIVE CollapseFrom(_, _, _)
CollapseFrom(s, i, acc) ==
    IF i > Len(s) THEN acc
    ELSE IF s[i] \in Spaces
         THEN IF acc = <<>> \/ acc[Len(acc)] = " "
              THEN CollapseFrom(s, i + 1, acc)
              ELSE CollapseFrom(s, i + 1, Append(acc, " "))
         ELSE CollapseFrom(s, i + 1, Append(acc, s[i]))

StripRight(s) == IF s # <<>> /\ s[Len(s)] = " " THEN SubSeq(s, 1, Len(s) - 1) ELSE s
CollapseStrip(s) == StripRight(CollapseFrom(s, 1, <<>>))

\* re.sub(r'\D', '', s)
DigitsOnly(s) == SelectSeq(s, LAMBDA c : c \in Digits)

\* s[:n]
Prefix(s, n) == SubSeq(s, 1, Min(n, Len(s)))

\* s.split()[0] if s.split() else "": the first white-space token.
RECURSIVE TokenFrom(_, _, _)
TokenFrom(s, i, acc) ==
    IF i > Len(s) THEN acc
    ELSE IF s[i] \in Spaces
         THEN IF acc = <<>> THEN TokenFrom(s, i + 1, acc) ELSE acc
         ELSE TokenFrom(s, i + 1, Append(acc, s[i]))
FirstWord(s) == TokenFrom(s, 1, <<>>)

\* s.split('@'): the pieces between the '@' signs.
RECURSIVE SplitAt(_, _, _, _)
SplitAt(s, i, cur, acc) ==
    IF i > Len(s) THEN Append(acc, cur)
    ELSE IF s[i] = "@" THEN SplitAt(s, i + 1, <<>>, Append(acc, cur))
         ELSE SplitAt(s, i + 1, Append(cur, s[i]), acc)
SplitOnAt(s) == SplitAt(s, 1, <<>>, <<>>)

\* ------------------------------------------------ fuzzywuzzy's fuzz.ratio
\* Length of a longest common subsequence, row by row.  A row under
\* construction holds j entries, so it is complete when it has Len(b) + 1.
RECURSIVE LcsRowFrom(_, _, _, _, _)
LcsRowFrom(prev, c, b, j, acc) ==
    IF Len(acc) > Len(b) THEN acc
    ELSE LET v == IF b[j] = c THEN prev[j] + 1 ELSE Max(prev[j + 1], acc[j])
         IN LcsRowFrom(prev, c, b, j + 1, Append(acc, v))

\* rows holds the rows computed so far, the all-zero row first; the next
\* row is the one of a[Len(rows)].
RECURSIVE LcsRows(_, _, _)
LcsRows(a, b, rows) ==
    IF Len(rows) > Len(a) THEN rows[Len(rows)][Len(b) + 1]
    ELSE LcsRows(a, b, Append(rows, LcsRowFrom(rows[Len(rows)], a[Len(rows)], b, 1, <<0>>)))

Lcs(a, b) == LcsRows(a, b, <<AsTuple([k \in 1..(Len(b) + 1) |-> 0])>>)

\* Python 3's round() of num/den: to the nearest integer, halves to even.
PyRound(num, den) ==
    LET q == num \div den
        r == num % den
    IN IF 2 * r < den THEN q
       ELSE IF 2 * r > den THEN q + 1
       ELSE IF q % 2 = 0 THEN q ELSE q + 1

\* fuzz.ratio(s1, s2): int(round(100 * 2*M / (len(s1) + len(s2)))) where M is
\* the number of matched characters (the Levenshtein/indel matcher: a longest
\* common subsequence); 0 on an empty argument.
FuzzRatio(s1, s2) ==
    IF s1 = <<>> \/ s2 = <<>> THEN 0
    ELSE PyRound(200 * Lcs(s1, s2), Len(s1) + Len(s2))

\* ======================================================================
\* FastEntityResolver (src/src/run_entity_resolution_fast.py)
\* ======================================================================
\* A party is a record with the keys party_id, name, email, phone, address
\* (country, source_system, accounts_list and source_index_list are carried
\* through untouched and are left out).  A processed party is referred to by
\* its position in processed_parties, which is what id(p) identifies.

\* Skip blocks larger than this (create_smart_blocks).
MaxBlockSize == 1000

\* preprocess_party: a copy of the party with the three normalised keys.
preprocess_party(party) ==
    party @@
    [name_normalized |->
        IF IsPresent(party.name)
        THEN StrLower(CollapseStrip(SubNonWord(party.name))) ELSE <<>>,
     email_normalized |->
        IF IsPresent(party.email) THEN StrLower(party.email) ELSE <<>>,
     phone_normalized |->
        IF IsPresent(party.phone) THEN DigitsOnly(party.phone) ELSE <<>>]

\* A call of preprocess_party were it to write the normalised keys to the
\* dict it is given, without "party.copy()".
PreprocessCall_NoCopy(party) ==
    [party |-> preprocess_party(party), processed |-> preprocess_party(party)]

\* A call of preprocess_party: the dict it was given as the call leaves it,
\* and the dict it returns.  The keys are written to processed, a copy.
PreprocessCall(party) ==
    [party |-> party, processed |-> preprocess_party(party)]

\* The keys of a defaultdict(list) in insertion order: the distinct values of
\* a sequence, by first occurrence.
RECURSIVE DistinctInOrder(_, _)
DistinctInOrder(s, acc) ==
    IF s = <<>> THEN acc
    ELSE IF Head(s) \in Range(acc) THEN DistinctInOrder(Tail(s), acc)
         ELSE DistinctInOrder(Tail(s), Append(acc, Head(s)))

Indices(n) == AsTuple([i \in 1..n |-> i])

\* The loop "for email, group in email_groups.items()": a bucket of two or
\* more whose first member is not yet used becomes a group.
RECURSIVE EmailGroupLoop(_, _, _, _)
EmailGroupLoop(pp, keys, groups, used) ==
    IF keys = <<>> THEN [groups |-> groups, used |-> used]
    ELSE LET group == SelectSeq(Indices(Len(pp)),
                                LAMBDA i : pp[i].email_normalized = Head(keys))
         IN IF Len(group) > 1 /\ group[1] \notin used
            THEN EmailGroupLoop(pp, Tail(keys), Append(groups, group), used \cup Range(group))
            ELSE EmailGroupLoop(pp, Tail(keys), groups, used)

\* The loop "for phone, group in phone_groups.items()"; the buckets hold only
\* the parties that were not used when the buckets were filled.
RECURSIVE PhoneGroupLoop(_, _, _, _, _)
PhoneGroupLoop(pp, keys, eligible, groups, used) ==
    IF keys = <<>> THEN [groups |-> groups, used |-> used]
    ELSE LET group == SelectSeq(eligible,
                                LAMBDA i : pp[i].phone_normalized = Head(keys))
         IN IF Len(group) > 1
            THEN PhoneGroupLoop(pp, Tail(keys), eligible, Append(groups, group), used \cup Range(group))
            ELSE PhoneGroupLoop(pp, Tail(keys), eligible, groups, used)

\* find_exact_matches with the two "if party[...]" tests on the normalised
\* key left out: empty e-mails and empty phones are bucketed too.
find_exact_matches_EmptyKeys(pp) ==
    LET emailKeys == DistinctInOrder(AsTuple([k \in 1..Len(pp) |-> pp[k].email_normalized]), <<>>)
        byEmail   == EmailGroupLoop(pp, emailKeys, <<>>, {})
        eligible  == SelectSeq(Indices(Len(pp)), LAMBDA i : i \notin byEmail.used)
        phoneKeys == DistinctInOrder(AsTuple([k \in 1..Len(eligible) |-> pp[eligible[k]].phone_normalized]), <<>>)
    IN PhoneGroupLoop(pp, phoneKeys, eligible, byEmail.groups, byEmail.used)

\* find_exact_matches: (exact_groups, used).
find_exact_matches(pp) ==
    LET withEmail == SelectSeq(Indices(Len(pp)), LAMBDA i : pp[i].email_normalized # <<>>)
        emailKeys == DistinctInOrder(AsTuple([k \in 1..Len(withEmail) |-> pp[withEmail[k]].email_normalized]), <<>>)
        byEmail   == EmailGroupLoop(pp, emailKeys, <<>>, {})
        eligible  == SelectSeq(Indices(Len(pp)),
                               LAMBDA i : pp[i].phone_normalized # <<>> /\ i \notin byEmail.used)
        phoneKeys == DistinctInOrder(AsTuple([k \in 1..Len(eligible) |-> pp[eligible[k]].phone_normalized]), <<>>)
    IN PhoneGroupLoop(pp, phoneKeys, eligible, byEmail.groups, byEmail.used)

\* The blocking keys one party is appended under, in the order of the code.
BlockKeysOf(p) ==
    LET name  == p.name_normalized
        email == p.email_normalized
        phone == p.phone_normalized
        first == FirstWord(name)
        parts == SplitOnAt(email)
    IN  (IF name # <<>> /\ Len(name) >= 5 THEN <<<<"name", Prefix(name, 5)>>>> ELSE <<>>)
     \o (IF name # <<>> /\ Len(first) >= 4 THEN <<<<"word", Prefix(first, 4)>>>> ELSE <<>>)
     \o (IF email # <<>> /\ "@" \in Range(email) /\ Len(parts[2]) >= 3
         THEN <<<<"email", Prefix(parts[2], 6)>>>> ELSE <<>>)
     \o (IF phone # <<>> /\ Len(phone) >= 6 THEN <<<<"phone", Prefix(phone, 6)>>>> ELSE <<>>)

\* create_smart_blocks over the remaining parties (a sequence of positions):
\* the blocks in the insertion order of their keys, over-large blocks
\* filtered out.
create_smart_blocks(pp, remaining) ==
    LET pairs  == Concat(AsTuple([k \in 1..Len(remaining) |->
                    LET ks == BlockKeysOf(pp[remaining[k]])
                    IN AsTuple([m \in 1..Len(ks) |-> [key |-> ks[m], party |-> remaining[k]]])]))
        keys   == DistinctInOrder(AsTuple([k \in 1..Len(pairs) |-> pairs[k].key]), <<>>)
        blocks == AsTuple([b \in 1..Len(keys) |->
                    LET mine == SelectSeq(pairs, LAMBDA q : q.key = keys[b])
                    IN [key |-> keys[b], parties |-> AsTuple([m \in 1..Len(mine) |-> mine[m].party])]])
    IN SelectSeq(blocks, LAMBDA blk : Len(blk.parties) <= MaxBlockSize)

\* calculate_similarity_fast with the name similarity added as it is,
\* without its weight of 0.4.
calculate_similarity_fast_UnweightedName(party1, party2) ==
    LET named    == party1.name_normalized # <<>> /\ party2.name_normalized # <<>>
        ratio    == FuzzRatio(party1.name_normalized, party2.name_normalized)
        score    == IF named THEN 10 * ratio ELSE 0
    IN IF named /\ ratio < 30 THEN score
       ELSE IF party1.email_normalized # <<>> /\ party2.email_normalized # <<>>
               /\ party1.email_normalized = party2.email_normalized
            THEN score + 300
       ELSE IF party1.phone_normalized # <<>> /\ party2.phone_normalized # <<>>
               /\ party1.phone_normalized = party2.phone_normalized
            THEN score + 200
       ELSE score

\* calculate_similarity_fast, in thousandths.
calculate_similarity_fast(party1, party2) ==
    LET named    == party1.name_normalized # <<>> /\ party2.name_normalized # <<>>
        ratio    == FuzzRatio(party1.name_normalized, party2.name_normalized)
        score    == IF named THEN 4 * ratio ELSE 0
    IN IF named /\ ratio < 30 THEN score
       ELSE IF party1.email_normalized # <<>> /\ party2.email_normalized # <<>>
               /\ party1.email_normalized = party2.email_normalized
            THEN score + 300
       ELSE IF party1.phone_normalized # <<>> /\ party2.phone_normalized # <<>>
               /\ party1.phone_normalized = party2.phone_normalized
            THEN score + 200
       ELSE score

\* The similarity a pair needs to be grouped in a block (0.7).
FuzzyThreshold == 700

\* The inner loops of _find_entity_groups_blocked without the two
\* "if id(...) in used: continue" tests.
RECURSIVE BlockLoop_NoUsedCheck(_, _, _, _, _)
BlockLoop_NoUsedCheck(pp, block, i, groups, used) ==
    IF i > Len(block) THEN [groups |-> groups, used |-> used]
    ELSE LET rest  == SubSeq(block, i + 1, Len(block))
             taken == SelectSeq(rest, LAMBDA j :
                         calculate_similarity_fast(pp[block[i]], pp[j]) >= FuzzyThreshold)
             group == <<block[i]>> \o taken
         IN BlockLoop_NoUsedCheck(pp, block, i + 1, Append(groups, group), used \cup Range(group))

\* The inner loops of _find_entity_groups_blocked over one block: every
\* party not yet used opens a group and takes the later unused parties that
\* are similar enough to it.
RECURSIVE BlockLoop(_, _, _, _, _)
BlockLoop(pp, block, i, groups, used) ==
    IF i > Len(block) THEN [groups |-> groups, used |-> used]
    ELSE IF block[i] \in used THEN BlockLoop(pp, block, i + 1, groups, used)
    ELSE LET rest  == SubSeq(block, i + 1, Len(block))
             taken == SelectSeq(rest, LAMBDA j :
                         j \notin used \cup {block[i]}
                         /\ calculate_similarity_fast(pp[block[i]], pp[j]) >= FuzzyThreshold)
             group == <<block[i]>> \o taken
         IN BlockLoop(pp, block, i + 1, Append(groups, group), used \cup Range(group))

\* _find_entity_groups_blocked: blocks of one party are skipped.
RECURSIVE find_entity_groups_blocked(_, _, _, _)
find_entity_groups_blocked(pp, blocks, groups, used) ==
    IF blocks = <<>> THEN groups
    ELSE IF Len(Head(blocks).parties) <= 1
         THEN find_entity_groups_blocked(pp, Tail(blocks), groups, used)
         ELSE LET r == BlockLoop(pp, Head(blocks).parties, 1, groups, used)
              IN find_entity_groups_blocked(pp, Tail(blocks), r.groups, r.used)

\* The keys _create_entity and the _get_resolved_* helpers read with
\* party[...]: a group with a party that lacks one raises KeyError.
RequiredKeys == {"party_id", "name", "email", "phone", "address"}
GroupRaises(pp, group) ==
    \E k \in 1..Len(group) : \E f \in RequiredKeys : pp[group[k]][f] = NoKey

\* f"{n:06d}": the decimal digits of n, zero-padded on the left to six.
DigitChar == [d \in 0..9 |->
    CASE d = 0 -> "0" [] d = 1 -> "1" [] d = 2 -> "2" [] d = 3 -> "3" [] d = 4 -> "4"
      [] d = 5 -> "5" [] d = 6 -> "6" [] d = 7 -> "7" [] d = 8 -> "8" [] d = 9 -> "9"]

RECURSIVE DecDigits(_)
DecDigits(n) == IF n < 10 THEN <<DigitChar[n]>> ELSE Append(DecDigits(n \div 10), DigitChar[n % 10])

RECURSIVE ZeroPad(_, _)
ZeroPad(s, width) == IF Len(s) >= width THEN s ELSE ZeroPad(<<"0">> \o s, width)

\* f"E{self.entity_counter + 1:06d}"
FormatEntityId(counter) == <<"E">> \o ZeroPad(DecDigits(counter + 1), 6)

\* _calculate_confidence without the "len(party_group) == 1" case: a single
\* party has no pairs and falls through to the final "return 0.8".
calculate_confidence_NoSingleCase(pp, group) ==
    LET n      == Len(group)
        pairs  == {<<i, j>> \in (1..n) \X (1..n) : i < j}
        sims   == [q \in pairs |-> calculate_similarity_fast(pp[group[q[1]]], pp[group[q[2]]])]
        RECURSIVE Total(_)
        Total(S) == IF S = {} THEN 0
                    ELSE LET q == CHOOSE x \in S : TRUE IN sims[q] + Total(S \ {q})
        np     == Cardinality(pairs)
        boost  == Min(n * 50, 200)
    IN IF pairs = {} THEN <<800, 1>>
       ELSE <<Min(Total(pairs) + boost * np, 1000 * np), np>>

\* _calculate_confidence, as a fraction <<num, den>> of thousandths: 0.7 for
\* one party, else the mean of the pairwise similarities plus
\* min(len * 0.05, 0.2), capped at 1.0.
calculate_confidence(pp, group) ==
    IF Len(group) = 1 THEN <<700, 1>>
    ELSE LET n      == Len(group)
             pairs  == {<<i, j>> \in (1..n) \X (1..n) : i < j}
             sims   == [q \in pairs |-> calculate_similarity_fast(pp[group[q[1]]], pp[group[q[2]]])]
             RECURSIVE Total(_)
             Total(S) == IF S = {} THEN 0
                         ELSE LET q == CHOOSE x \in S : TRUE IN sims[q] + Total(S \ {q})
             np     == Cardinality(pairs)
             boost  == Min(n * 50, 200)
         IN <<Min(Total(pairs) + boost * np, 1000 * np), np>>

\* max(values, key=len) were it to keep the last of the longest.
RECURSIVE FirstLongest_LastWins(_, _)
FirstLongest_LastWins(values, best) ==
    IF values = <<>> THEN best
    ELSE IF Len(Head(values)) >= Len(best)
         THEN FirstLongest_LastWins(Tail(values), Head(values))
         ELSE FirstLongest_LastWins(Tail(values), best)

\* max(values, key=len): the first of the longest; '' when there is none.
RECURSIVE FirstLongest(_, _)
FirstLongest(values, best) ==
    IF values = <<>> THEN best
    ELSE IF Len(Head(values)) > Len(best) THEN FirstLongest(Tail(values), Head(values))
         ELSE FirstLongest(Tail(values), best)

PresentValues(pp, group, f) ==
    LET vals == AsTuple([k \in 1..Len(group) |-> pp[group[k]][f]])
    IN SelectSeq(vals, IsPresent)

get_resolved_name(pp, group) == FirstLongest(PresentValues(pp, group, "name"), <<>>)
get_resolved_address(pp, group) == FirstLongest(PresentValues(pp, group, "address"), <<>>)
get_resolved_email(pp, group) ==
    LET emails == PresentValues(pp, group, "email") IN IF emails = <<>> THEN <<>> ELSE emails[1]
get_resolved_phone(pp, group) ==
    LET phones == PresentValues(pp, group, "phone") IN IF phones = <<>> THEN <<>> ELSE phones[1]

\* _create_entity for a group that does not raise.
create_entity(pp, group, counter) ==
    [entity_id        |-> FormatEntityId(counter),
     party_ids        |-> AsTuple([k \in 1..Len(group) |-> pp[group[k]].party_id]),
     confidence_score |-> calculate_confidence(pp, group),
     resolved_name    |-> get_resolved_name(pp, group),
     resolved_address |-> get_resolved_address(pp, group),
     resolved_phone   |-> get_resolved_phone(pp, group),
     resolved_email   |-> get_resolved_email(pp, group)]

\* The entity loop without "self.entity_counter += 1".
RECURSIVE CreateLoop_NoStep(_, _, _, _, _)
CreateLoop_NoStep(pp, groups, k, counter, entities) ==
    IF k > Len(groups) THEN [raised |-> FALSE, entities |-> entities, counter |-> counter]
    ELSE IF GroupRaises(pp, groups[k])
         THEN [raised |-> TRUE, entities |-> <<>>, counter |-> counter]
         ELSE CreateLoop_NoStep(pp, groups, k + 1, counter,
                                Append(entities, create_entity(pp, groups[k], counter)))

\* The loop "for i, group in enumerate(all_groups)" of resolve_entities_fast:
\* an entity per group, the counter stepped after each; a KeyError ends the
\* call with nothing returned and the counter where it stood.
RECURSIVE CreateLoop(_, _, _, _, _)
CreateLoop(pp, groups, k, counter, entities) ==
    IF k > Len(groups) THEN [raised |-> FALSE, entities |-> entities, counter |-> counter]
    ELSE IF GroupRaises(pp, groups[k])
         THEN [raised |-> TRUE, entities |-> <<>>, counter |-> counter]
         ELSE CreateLoop(pp, groups, k + 1, counter + 1,
                         Append(entities, create_entity(pp, groups[k], counter)))

\* Stages 1 to 3 and the first half of stage 4 of resolve_entities_fast: the
\* groups in the order the entities are made from them.
AllGroups(parties) ==
    LET pp        == AsTuple([i \in 1..Len(parties) |-> PreprocessCall(parties[i]).processed])
        exact     == find_exact_matches(pp)
        remaining == SelectSeq(Indices(Len(pp)), LAMBDA i : i \notin exact.used)
        blocked   == create_smart_blocks(pp, remaining)
        fuzzy     == find_entity_groups_blocked(pp, blocked, <<>>, {})
        groups    == exact.groups \o fuzzy
        all_used  == UNION {Range(groups[g]) : g \in 1..Len(groups)}
        singles   == SelectSeq(Indices(Len(pp)), LAMBDA i : i \notin all_used)
    IN groups \o AsTuple([k \in 1..Len(singles) |-> <<singles[k]>>])

\* resolve_entities_fast(parties) on a resolver whose entity_counter is
\* counter: what the call returns or that it raised, and the counter after.
resolve_entities_fast(parties, counter) ==
    LET pp == AsTuple([i \in 1..Len(parties) |-> PreprocessCall(parties[i]).processed])
    IN CreateLoop(pp, AllGroups(parties), 1, counter, <<>>)

\* The list handed to resolve_entities_fast as the call leaves it: stage 1
\* passes every party to preprocess_party, and nothing else is written to.
PartiesAfter(parties) ==
    AsTuple([i \in 1..Len(parties) |-> PreprocessCall(parties[i]).party])

\* ======================================================================
\* EntityResolver (src/src/core/entity_resolution.py)
\* ======================================================================
\* A record has the keys name, email, phone, address and source_system; a
\* key the record does not have holds NoKey.  The configuration is the value
\* the resolver was constructed with.  A field similarity is counted in
\* thousandths; a record similarity, a weighted mean over weights of tenths,
\* is counted in SimUnit-ths of a thousandth, so that it stays an integer.

\* -------------------------------------- fuzzywuzzy's token and partial ratios
\* The characters left by full_process, in code-point order.
CodeOrder ==
    <<"0", "1", "2", "3", "4", "5", "6", "7", "8", "9", "_",
      "a", "b", "c", "d", "e", "f", "g", "h", "i", "j", "k", "l", "m",
      "n", "o", "p", "q", "r", "s", "t", "u", "v", "w", "x", "y", "z">>
CharRank(c) == CHOOSE i \in 1..Len(CodeOrder) : CodeOrder[i] = c

\* s1 < s2 for two strings over CodeOrder.
RECURSIVE StrLess(_, _)
StrLess(s1, s2) ==
    IF s2 = <<>> THEN FALSE
    ELSE IF s1 = <<>> THEN TRUE
    ELSE IF Head(s1) # Head(s2) THEN CharRank(Head(s1)) < CharRank(Head(s2))
    ELSE StrLess(Tail(s1), Tail(s2))

\* utils.full_process: non-word characters to blanks, lower case, strip.
FullProcess(s) == CollapseStrip(StrLower(SubNonWord(s)))

\* s.split(): the white-space separated tokens.
RECURSIVE SplitFrom(_, _, _, _)
SplitFrom(s, i, cur, acc) ==
    IF i > Len(s) THEN IF cur = <<>> THEN acc ELSE Append(acc, cur)
    ELSE IF s[i] \in Spaces
         THEN SplitFrom(s, i + 1, <<>>, IF cur = <<>> THEN acc ELSE Append(acc, cur))
         ELSE SplitFrom(s, i + 1, Append(cur, s[i]), acc)
Split(s) == SplitFrom(s, 1, <<>>, <<>>)

\* " ".join(tokens)
RECURSIVE JoinBlank(_)
JoinBlank(tokens) ==
    IF tokens = <<>> THEN <<>>
    ELSE IF Len(tokens) = 1 THEN tokens[1]
    ELSE tokens[1] \o <<" ">> \o JoinBlank(Tail(tokens))

\* sorted(tokens)
RECURSIVE InsertSorted(_, _)
InsertSorted(t, sorted) ==
    IF sorted = <<>> THEN <<t>>
    ELSE IF StrLess(t, Head(sorted)) THEN <<t>> \o sorted
    ELSE <<Head(sorted)>> \o InsertSorted(t, Tail(sorted))

RECURSIVE Sorted(_)
Sorted(tokens) == IF tokens = <<>> THEN <<>> ELSE InsertSorted(Head(tokens), Sorted(Tail(tokens)))

\* sorted(set(tokens))
SortedSet(tokens) == Sorted(DistinctInOrder(tokens, <<>>))

\* fuzz.token_sort_ratio(s1, s2)
FuzzTokenSortRatio(s1, s2) ==
    FuzzRatio(JoinBlank(Sorted(Split(FullProcess(s1)))), JoinBlank(Sorted(Split(FullProcess(s2)))))

\* fuzz.partial_ratio(s1, s2): the ratio of the shorter string with the
\* substring of the longer one, of the shorter's length, that fits it best.
FuzzPartialRatio(s1, s2) ==
    IF s1 = <<>> \/ s2 = <<>> THEN 0
    ELSE LET shorter == IF Len(s1) <= Len(s2) THEN s1 ELSE s2
             longer  == IF Len(s1) <= Len(s2) THEN s2 ELSE s1
             scores  == {FuzzRatio(shorter, SubSeq(longer, k, k + Len(shorter) - 1)) :
                            k \in 1..(Len(longer) - Len(shorter) + 1)}
         IN CHOOSE m \in scores : \A x \in scores : x <= m

\* fuzz.token_set_ratio(s1, s2): the best ratio among the sorted common
\* tokens and the two strings rebuilt as common tokens plus their own.
FuzzTokenSetRatio(s1, s2) ==
    LET tokens1 == Split(FullProcess(s1))
        tokens2 == Split(FullProcess(s2))
        sect    == JoinBlank(SortedSet(SelectSeq(tokens1, LAMBDA t : t \in Range(tokens2))))
        diff1to2 == JoinBlank(SortedSet(SelectSeq(tokens1, LAMBDA t : t \notin Range(tokens2))))
        diff2to1 == JoinBlank(SortedSet(SelectSeq(tokens2, LAMBDA t : t \notin Range(tokens1))))
        combined1to2 == CollapseStrip(sect \o <<" ">> \o diff1to2)
        combined2to1 == CollapseStrip(sect \o <<" ">> \o diff2to1)
    IN IF tokens1 = <<>> \/ tokens2 = <<>> THEN 0
       ELSE Max(FuzzRatio(sect, combined1to2),
                Max(FuzzRatio(sect, combined2to1), FuzzRatio(combined1to2, combined2to1)))

\* ------------------------------------------------------- preprocess_record
\* The value of a key of a processed record after which key it is made.
NormalizedKey ==
    [f \in {"name", "email", "phone", "address"} |->
        CASE f = "name" -> "name_normalized" [] f = "email" -> "email_normalized"
          [] f = "phone" -> "phone_normalized" [] f = "address" -> "address_normalized"]

\* re.sub and str.lower raise on a value that is not a string.
RecordRaises(record, config) ==
    \/ record.name = None /\ config.normalize_names
    \/ record.email = None /\ config.lowercase
    \/ record.phone = None /\ config.standardize_phone
    \/ record.address = None /\ config.extract_address_components

\* preprocess_record: a copy of the record with a normalised key for every
\* one of the four keys the record has.
preprocess_record(record, config) ==
    record @@
    [name_normalized |->
        IF record.name = NoKey THEN NoKey
        ELSE IF ~config.normalize_names THEN record.name
        ELSE LET name == CollapseStrip(SubNonWord(record.name))
             IN IF config.lowercase THEN StrLower(name) ELSE name,
     email_normalized |->
        IF record.email = NoKey THEN NoKey
        ELSE IF config.lowercase THEN StrLower(record.email) ELSE record.email,
     phone_normalized |->
        IF record.phone = NoKey THEN NoKey
        ELSE IF config.standardize_phone THEN DigitsOnly(record.phone) ELSE record.phone,
     address_normalized |->
        IF record.address = NoKey THEN NoKey
        ELSE IF ~config.extract_address_components THEN record.address
        ELSE LET address == CollapseStrip(record.address)
             IN IF config.lowercase THEN StrLower(address) ELSE address]

\* ------------------------------------------------------ the similarities
\* "not s" for a field value.
Falsy(s) == s = <<>> \/ s = None

\* The score of one configured algorithm times its weight (in tenths).
AlgoScore(algo, s1, s2) ==
    (IF algo.type = "fuzzy"
     THEN IF algo.method = "token_sort_ratio" THEN FuzzTokenSortRatio(s1, s2)
          ELSE IF algo.method = "partial_ratio" THEN FuzzPartialRatio(s1, s2)
          ELSE FuzzRatio(s1, s2)
     ELSE IF algo.type = "levenshtein" THEN FuzzRatio(s1, s2)
     ELSE IF s1 = s2 THEN 1 ELSE 0) * algo.weight

\* _calculate_name_similarity, in thousandths: sum(scores) / 100.
calculate_name_similarity(name1, name2, config) ==
    IF Falsy(name1) \/ Falsy(name2) THEN 0
    ELSE LET algorithms == config.name_algorithms
         IN SumSeq(AsTuple([k \in 1..Len(algorithms) |-> AlgoScore(algorithms[k], name1, name2)]))

\* _calculate_email_similarity, in thousandths; an e-mail that does not
\* split into two parts at '@' makes the unpacking raise, which is caught.
calculate_email_similarity(email1, email2) ==
    IF Falsy(email1) \/ Falsy(email2) THEN 0
    ELSE IF email1 = email2 THEN 1000
    ELSE LET parts1 == SplitOnAt(email1)
             parts2 == SplitOnAt(email2)
         IN IF Len(parts1) = 2 /\ Len(parts2) = 2
            THEN 3 * FuzzRatio(parts1[1], parts2[1]) + (IF parts1[2] = parts2[2] THEN 700 ELSE 0)
            ELSE 10 * FuzzRatio(email1, email2)

\* s[-n:]
Suffix(s, n) == SubSeq(s, Max(1, Len(s) - n + 1), Len(s))

\* _calculate_phone_similarity, in thousandths.
calculate_phone_similarity(phone1, phone2) ==
    IF Falsy(phone1) \/ Falsy(phone2) THEN 0
    ELSE IF phone1 = phone2 THEN 1000
    ELSE IF Len(phone1) >= 10 /\ Len(phone2) >= 10 /\ Suffix(phone1, 10) = Suffix(phone2, 10)
         THEN 900
    ELSE 10 * FuzzRatio(phone1, phone2)

\* The score of one configured address algorithm times its weight (tenths).
AddressAlgoScore(algo, s1, s2) ==
    (IF algo.method = "token_set_ratio" THEN FuzzTokenSetRatio(s1, s2)
     ELSE IF algo.method = "partial_ratio" THEN FuzzPartialRatio(s1, s2)
     ELSE FuzzRatio(s1, s2)) * algo.weight

\* _calculate_address_similarity, in thousandths.
calculate_address_similarity(addr1, addr2, config) ==
    IF Falsy(addr1) \/ Falsy(addr2) THEN 0
    ELSE IF addr1 = addr2 THEN 1000
    ELSE LET algorithms == config.address_algorithms
         IN SumSeq(AsTuple([k \in 1..Len(algorithms) |-> AddressAlgoScore(algorithms[k], addr1, addr2)]))

\* The weights of calculate_similarity, in tenths.
FieldWeight ==
    [f \in {"name", "email", "phone", "address"} |->
        CASE f = "name" -> 4 [] f = "email" -> 3 [] f = "phone" -> 2 [] f = "address" -> 1]

\* A common multiple of every total weight 1..10 (tenths).
SimUnit == 2520

\* The similarity 1.0 in the unit of calculate_similarity.
SimOne == 1000 * SimUnit

\* calculate_similarity: the weighted mean of the similarities of the fields
\* that both records have a normalised key for; 0 when there is none.
calculate_similarity(record1, record2, config) ==
    LET shared == SelectSeq(<<"name", "email", "phone", "address">>, LAMBDA f :
                      record1[NormalizedKey[f]] # NoKey /\ record2[NormalizedKey[f]] # NoKey)
        field_sim(f) ==
            LET v1 == record1[NormalizedKey[f]]
                v2 == record2[NormalizedKey[f]]
            IN CASE f = "name"    -> calculate_name_similarity(v1, v2, config)
                 [] f = "email"   -> calculate_email_similarity(v1, v2)
                 [] f = "phone"   -> calculate_phone_similarity(v1, v2)
                 [] f = "address" -> calculate_address_similarity(v1, v2, config)
        weighted_sum == SumSeq(AsTuple([k \in 1..Len(shared) |-> field_sim(shared[k]) * FieldWeight[shared[k]]]))
        total_weight == SumSeq(AsTuple([k \in 1..Len(shared) |-> FieldWeight[shared[k]]]))
    IN IF shared = <<>> THEN 0 ELSE (weighted_sum * SimUnit) \div total_weight

\* ------------------------------------------------------- resolve_entities
\* The comparison of the two key fields without the test that record1's
\* value is truthy.
MatchesExactly_NoTruthTest(record1, record2) ==
    \/ record1.email_normalized = record2.email_normalized
    \/ record1.phone_normalized = record2.phone_normalized

\* The test of _find_exact_matches on a pair: record1's e-mail is truthy and
\* equals record2's, or else the same for the phone.
MatchesExactly(record1, record2) ==
    \/ IsPresent(record1.email_normalized) /\ record1.email_normalized = record2.email_normalized
    \/ IsPresent(record1.phone_normalized) /\ record1.phone_normalized = record2.phone_normalized

\* The outer loop of _find_exact_matches from record i on: a record not yet
\* processed takes the later unprocessed records that match it exactly; a
\* group of two or more is kept.
RECURSIVE ExactMatchLoop(_, _, _, _)
ExactMatchLoop(pp, i, exact_groups, processed) ==
    IF i > Len(pp) THEN exact_groups
    ELSE IF i \in processed THEN ExactMatchLoop(pp, i + 1, exact_groups, processed)
    ELSE LET later == SelectSeq(SubSeq(Indices(Len(pp)), i + 1, Len(pp)), LAMBDA j :
                         j \notin processed /\ MatchesExactly(pp[i], pp[j]))
             group == <<i>> \o later
         IN ExactMatchLoop(pp, i + 1,
                           IF Len(group) > 1 THEN Append(exact_groups, group) ELSE exact_groups,
                           processed \cup Range(group))

\* _find_exact_matches
EntityResolver_find_exact_matches(pp) == ExactMatchLoop(pp, 1, <<>>, {})

\* The sum of calculate_similarity of a record with the records of a cluster.
ClusterSimSum(pp, record_id, cluster, config) ==
    SumSeq(AsTuple([k \in 1..Len(cluster) |->
        calculate_similarity(pp[record_id], pp[cluster[k]], config)]))

\* The loop "for cluster_id, cluster in enumerate(clusters)": the cluster
\* whose mean similarity with the record is above the threshold and above
\* the best so far; 0 stands for None.  The best mean is the fraction
\* best_sum / best_len.
RECURSIVE BestClusterLoop(_, _, _, _, _, _, _, _)
BestClusterLoop(pp, record_id, clusters, c, best_cluster, best_sum, best_len, config) ==
    IF c > Len(clusters) THEN best_cluster
    ELSE LET sum == ClusterSimSum(pp, record_id, clusters[c], config)
             len == Len(clusters[c])
         IN IF /\ sum > config.overall_threshold * SimUnit * len
               /\ sum * best_len > best_sum * len
            THEN BestClusterLoop(pp, record_id, clusters, c + 1, c, sum, len, config)
            ELSE BestClusterLoop(pp, record_id, clusters, c + 1, best_cluster, best_sum, best_len, config)

\* The clustering state of resolve_entities: the clusters, lists of
\* positions in the input, and record_to_cluster, which holds the cluster
\* identifiers as the code counts them, from 0.
Last(s) == s[Len(s)]
Assign(record_to_cluster, ids, cluster_id) ==
    [x \in DOMAIN record_to_cluster \cup ids |->
        IF x \in ids THEN cluster_id ELSE record_to_cluster[x]]

\* The body of "for match_group in exact_matches".
PlaceGroup(st, match_group) ==
    [clusters          |-> Append(st.clusters, match_group),
     record_to_cluster |-> Assign(st.record_to_cluster, Range(match_group), Len(st.clusters))]

\* The end of the body of "for record_id in remaining_records" with the
\* else branch taken as well when the record joined a cluster.
PlaceRecord_AlsoNew(st, record_id, best_cluster) ==
    IF best_cluster # 0
    THEN [clusters          |-> Append([st.clusters EXCEPT ![best_cluster] = Append(@, record_id)],
                                       <<record_id>>),
          record_to_cluster |-> Assign(st.record_to_cluster, {record_id}, Len(st.clusters))]
    ELSE [clusters          |-> Append(st.clusters, <<record_id>>),
          record_to_cluster |-> Assign(st.record_to_cluster, {record_id}, Len(st.clusters))]

\* The end of the body of "for record_id in remaining_records": the record
\* joins its best cluster or, when there is none (0), opens a new one.
PlaceRecord(st, record_id, best_cluster) ==
    IF best_cluster # 0
    THEN [clusters          |-> [st.clusters EXCEPT ![best_cluster] = Append(@, record_id)],
          record_to_cluster |-> Assign(st.record_to_cluster, {record_id}, best_cluster - 1)]
    ELSE [clusters          |-> Append(st.clusters, <<record_id>>),
          record_to_cluster |-> Assign(st.record_to_cluster, {record_id}, Len(st.clusters))]

\* The first pass of resolve_entities; steps lists the clustering states so
\* far, the current one last.  The states so far are bound as a value, s,
\* before the next one is made from them.
RECURSIVE ExactPass(_, _)
ExactPass(exact_matches, steps) ==
    IF exact_matches = <<>> THEN steps
    ELSE CHOOSE all \in
             {ExactPass(Tail(exact_matches), Append(s, PlaceGroup(Last(s), Head(exact_matches))))
                 : s \in {steps}} : TRUE

\* The second pass of resolve_entities.
RECURSIVE FuzzyPass(_, _, _, _)
FuzzyPass(pp, remaining, steps, config) ==
    IF remaining = <<>> THEN steps
    ELSE CHOOSE all \in
             {FuzzyPass(pp, Tail(remaining),
                        Append(s, PlaceRecord(Last(s), Head(remaining),
                                              BestClusterLoop(pp, Head(remaining), Last(s).clusters,
                                                              1, 0, 0, 1, config))),
                        config)
                 : s \in {steps}} : TRUE

\* The clustering states resolve_entities goes through over the processed
\* records, from the empty one to the final one.
ClusterSteps(pp, config) ==
    LET exact_matches == EntityResolver_find_exact_matches(pp)
        first_pass    == ExactPass(exact_matches,
                                   <<[clusters |-> <<>>, record_to_cluster |-> <<>>]>>)
        remaining     == SelectSeq(Indices(Len(pp)), LAMBDA i :
                             i \notin DOMAIN Last(first_pass).record_to_cluster)
    IN FuzzyPass(pp, remaining, first_pass, config)

\* _calculate_entity_confidence, as a fraction <<num, den>> in the unit of
\* calculate_similarity.
calculate_entity_confidence(pp, cluster, config) ==
    IF Len(cluster) = 1 THEN <<700 * SimUnit, 1>>
    ELSE LET n     == Len(cluster)
             pairs == {<<i, j>> \in (1..n) \X (1..n) : i < j}
             sims  == [q \in pairs |-> calculate_similarity(pp[cluster[q[1]]], pp[cluster[q[2]]], config)]
             RECURSIVE Total(_)
             Total(S) == IF S = {} THEN 0
                         ELSE LET q == CHOOSE x \in S : TRUE IN sims[q] + Total(S \ {q})
             np    == Cardinality(pairs)
             size_boost == Min(n * 50, 200) * SimUnit
         IN <<Min(Total(pairs) + size_boost * np, SimOne * np), np>>

\* business_indicators of determine_entity_type.
business_indicators ==
    << <<"i", "n", "c">>, <<"c", "o", "r", "p">>, <<"l", "t", "d">>, <<"l", "l", "c">>,
       <<"c", "o", "m", "p", "a", "n", "y">>,
       <<"c", "o", "r", "p", "o", "r", "a", "t", "i", "o", "n">>,
       <<"l", "i", "m", "i", "t", "e", "d">>, <<"c", "o">> >>

\* "sub in s" for two strings.
Contains(sub, s) ==
    \E i \in 1..(Len(s) - Len(sub) + 1) : SubSeq(s, i, i + Len(sub) - 1) = sub

\* record.get('name', '')
NameOf(record) == IF record.name = NoKey THEN <<>> ELSE record.name

\* determine_entity_type over the records of a cluster: 'biz' when a name,
\* lower-cased, has an indicator in it, or when more than half of the names
\* have no blank or split into one token; else 'ind'.
determine_entity_type(pp, cluster) ==
    IF \E k \in 1..Len(cluster) : \E m \in 1..Len(business_indicators) :
           Contains(business_indicators[m], StrLower(NameOf(pp[cluster[k]])))
    THEN "biz"
    ELSE LET business_count ==
                 Cardinality({k \in 1..Len(cluster) :
                     \/ " " \notin Range(NameOf(pp[cluster[k]]))
                     \/ Len(Split(NameOf(pp[cluster[k]]))) = 1})
         IN IF 2 * business_count > Len(cluster) THEN "biz" ELSE "ind"

\* f"ENT{cluster_id:06d}"
FormatClusterId(cluster_id) == <<"E", "N", "T">> \o ZeroPad(DecDigits(cluster_id), 6)

\* record.get('source_system', 'unknown')
SourceUnknown == <<"unknown">>
SourceOf(record) == IF record.source_system = NoKey THEN SourceUnknown ELSE record.source_system

\* The entity made from cluster number cluster_id.  list(set(...)) lists
\* the sources in the iteration order of a set of strings, which follows the
\* string hashes of the interpreter process: hash_order is that order.  The
\* two datetime.now() read the clock, now.  (pep_ind and record_count are
\* not part of the model's entity.)
MakeEntity(pp, cluster, cluster_id, config, now, hash_order) ==
    [entity_id       |-> FormatClusterId(cluster_id),
     entity_type     |-> determine_entity_type(pp, cluster),
     records         |-> AsTuple([k \in 1..Len(cluster) |-> pp[cluster[k]]]),
     confidence      |-> calculate_entity_confidence(pp, cluster, config),
     created_at      |-> now,
     updated_at      |-> now,
     sources         |-> SelectSeq(hash_order, LAMBDA s : \E k \in 1..Len(cluster) : SourceOf(pp[cluster[k]]) = s),
     primary_name    |-> FirstLongest(PresentValues(pp, cluster, "name"), <<>>),
     primary_email   |-> LET emails == PresentValues(pp, cluster, "email")
                         IN IF emails = <<>> THEN <<>> ELSE emails[1],
     primary_phone   |-> LET phones == PresentValues(pp, cluster, "phone")
                         IN IF phones = <<>> THEN <<>> ELSE phones[1],
     primary_address |-> FirstLongest(PresentValues(pp, cluster, "address"), <<>>)]

\* resolve_entities up to "Convert clusters to entities": that a record made
\* preprocess_record raise, or the processed records and their clusters.
ClusterRecords(records, config) ==
    IF \E i \in 1..Len(records) : RecordRaises(records[i], config)
    THEN [raised |-> TRUE, processed_records |-> <<>>,
          steps |-> <<[clusters |-> <<>>, record_to_cluster |-> <<>>]>>]
    ELSE LET pp == AsTuple([i \in 1..Len(records) |-> preprocess_record(records[i], config)])
         IN [raised |-> FALSE, processed_records |-> pp, steps |-> ClusterSteps(pp, config)]

\* The rest of resolve_entities: the entities of the clusters, cluster 0
\* first.
EntitiesOf(clustered, config, now, hash_order) ==
    [raised   |-> clustered.raised,
     steps    |-> clustered.steps,
     clusters |-> Last(clustered.steps).clusters,
     entities |-> AsTuple([c \in 1..Len(Last(clustered.steps).clusters) |->
                      MakeEntity(clustered.processed_records, Last(clustered.steps).clusters[c], c - 1,
                                 config, now, hash_order)])]

\* resolve_entities(records): that it raised, or the clusters and the
\* entities made from them.
resolve_entities(records, config, now, hash_order) ==
    EntitiesOf(ClusterRecords(records, config), config, now, hash_order)

\* ======================================================================
\* PartyEntityResolver (src/src/run_entity_resolution.py)
\* ======================================================================
\* preprocess_party: a copy of the party with the four normalised keys; the
\* address keeps its punctuation.
PartyEntityResolver_preprocess_party(party) ==
    party @@
    [name_normalized |->
        IF IsPresent(party.name)
        THEN StrLower(CollapseStrip(SubNonWord(party.name))) ELSE <<>>,
     email_normalized |->
        IF IsPresent(party.email) THEN StrLower(party.email) ELSE <<>>,
     phone_normalized |->
        IF IsPresent(party.phone) THEN DigitsOnly(party.phone) ELSE <<>>,
     address_normalized |->
        IF IsPresent(party.address) THEN StrLower(CollapseStrip(party.address)) ELSE <<>>]

\* calculate_similarity, in thousandths: the sum of the weighted scores of
\* the fields that are non-empty on both sides.
PartyEntityResolver_calculate_similarity(party1, party2) ==
    LET both(f) == party1[f] # <<>> /\ party2[f] # <<>>
        name    == IF both("name_normalized")
                   THEN 4 * FuzzRatio(party1.name_normalized, party2.name_normalized) ELSE 0
        email   == IF both("email_normalized")
                   THEN IF party1.email_normalized = party2.email_normalized THEN 300
                        ELSE 3 * FuzzRatio(party1.email_normalized, party2.email_normalized)
                   ELSE 0
        phone   == IF both("phone_normalized")
                   THEN IF party1.phone_normalized = party2.phone_normalized THEN 200
                        ELSE 2 * FuzzRatio(party1.phone_normalized, party2.phone_normalized)
                   ELSE 0
        address == IF both("address_normalized")
                   THEN FuzzRatio(party1.address_normalized, party2.address_normalized) ELSE 0
    IN name + email + phone + address

\* The similarity a pair needs to be grouped (0.7).
GroupThreshold == 700

\* A grouping that compares a later party with every member taken so far
\* instead of with the party that opened the group.
RECURSIVE TakeChained(_, _, _, _)
TakeChained(pp, group, j, used) ==
    IF j > Len(pp) THEN group
    ELSE IF j \notin used
            /\ \E m \in Range(group) :
                   PartyEntityResolver_calculate_similarity(pp[m], pp[j]) >= GroupThreshold
         THEN TakeChained(pp, Append(group, j), j + 1, used)
         ELSE TakeChained(pp, group, j + 1, used)

RECURSIVE find_entity_groups_Chained(_, _, _, _)
find_entity_groups_Chained(pp, i, groups, used) ==
    IF i > Len(pp) THEN groups
    ELSE IF i \in used THEN find_entity_groups_Chained(pp, i + 1, groups, used)
    ELSE LET group == TakeChained(pp, <<i>>, i + 1, used)
         IN find_entity_groups_Chained(pp, i + 1, Append(groups, group),
                                       used \cup Range(group))

\* _find_entity_groups, the groups as lists of input positions: every party
\* not yet used opens a group and takes the later unused parties that are
\* similar enough to it.
RECURSIVE find_entity_groups(_, _, _, _)
find_entity_groups(pp, i, groups, used) ==
    IF i > Len(pp) THEN groups
    ELSE IF i \in used THEN find_entity_groups(pp, i + 1, groups, used)
    ELSE LET rest  == AsTuple([k \in 1..(Len(pp) - i) |-> i + k])
             taken == SelectSeq(rest, LAMBDA j :
                         j \notin used
                         /\ PartyEntityResolver_calculate_similarity(pp[i], pp[j]) >= GroupThreshold)
             group == <<i>> \o taken
         IN find_entity_groups(pp, i + 1, Append(groups, group), used \cup Range(group))

\* ------------------------------------------------------------- the inputs
Party(pid, name, email, phone, address) ==
    [party_id |-> pid, name |-> name, email |-> email, phone |-> phone, address |-> address]

\* A party_id still to be made unique by the party's position in the input.
SomeId == <<"P">>

NameAnnaB == <<"A", "n", "n", "a", " ", "B">>
NameAnnaC == <<"a", "n", "n", "a", "-", "c">>
NameZ     == <<"Z">>
EmailA    == <<"A", "@", "x", ".", "i", "o">>
EmailALow == <<"a", "@", "x", ".", "i", "o">>
EmailB    == <<"b", "@", "x", ".", "i", "o">>
Phone1    == <<"5", "5", "5", "-", "0", "1", "0", "0">>
Phone1Raw == <<"5", "5", "5", "0", "1", "0", "0">>
Phone2    == <<"5", "5", "5", "0", "1", "0", "9">>
AddrElm   == <<"1", " ", "E", "l", "m">>
AddrOak   == <<"2", " ", "O", "a", "k", " ", "S", "t">>

\* The parties an input list is drawn from: records without any field, with
\* names only (sharing blocks), with e-mails and phones that coincide after
\* normalisation, and with an empty or a missing party_id.
PartyPool ==
    { Party(SomeId, <<>>, <<>>, <<>>, <<>>),
      Party(SomeId, None, None, None, None),
      Party(SomeId, NameAnnaB, <<>>, <<>>, AddrElm),
      Party(SomeId, NameAnnaC, <<>>, <<>>, <<>>),
      Party(SomeId, NameAnnaB, EmailA, Phone1, <<>>),
      Party(SomeId, NameZ, EmailALow, Phone2, AddrOak),
      Party(SomeId, <<>>, EmailB, Phone1Raw, <<>>),
      Party(SomeId, NameAnnaC, <<>>, Phone2, <<>>),
      Party(<<>>, NameAnnaB, <<>>, <<>>, <<>>),
      Party(NoKey, NameZ, EmailALow, <<>>, <<>>) }

\* The loader gives every party that has an identifier a unique one.
AssignIds(t) ==
    AsTuple([i \in 1..Len(t) |->
        [t[i] EXCEPT !.party_id = IF @ = SomeId THEN <<"P", DigitChar[i]>> ELSE @]])

InputLists == {AssignIds(t) : t \in SeqsUpTo(PartyPool, MaxParties)}

\* The parties of the scenarios: three that carry only a name, two with
\* one phone written in two ways and the names "A" and "Z", one whose
\* name is a letter outside ASCII, and one with that phone and no name.
NameMaryJohnson  == <<"M", "a", "r", "y", " ", "J", "o", "h", "n", "s", "o", "n">>
NameMaryJJohnson == <<"M", "a", "r", "y", " ", "J", " ", "J", "o", "h", "n", "s", "o", "n">>
NameBobWilliams  == <<"B", "o", "b", " ", "W", "i", "l", "l", "i", "a", "m", "s">>
NameA            == <<"A">>
NameDottedI      == <<DottedI>>

ScenarioPool ==
    { Party(SomeId, NameMaryJohnson, <<>>, <<>>, <<>>),
      Party(SomeId, NameMaryJJohnson, <<>>, <<>>, <<>>),
      Party(SomeId, NameBobWilliams, <<>>, <<>>, <<>>),
      Party(SomeId, NameA, <<>>, Phone1, <<>>),
      Party(SomeId, NameZ, <<>>, Phone1Raw, <<>>),
      Party(SomeId, NameDottedI, <<>>, <<>>, <<>>),
      Party(SomeId, <<>>, <<>>, Phone1, <<>>) }

ScenarioLists == {AssignIds(t) : t \in SeqsUpTo(ScenarioPool, MaxParties)}

\* The parties handed to PartyEntityResolver: three with one name of which
\* the second shares the e-mail with the first and phone and address with
\* the third, one that resembles the second only, and one unlike the rest.
GroupPool ==
    { Party(SomeId, NameAnnaB, EmailA, <<>>, <<>>),
      Party(SomeId, NameAnnaB, EmailALow, Phone1, AddrElm),
      Party(SomeId, NameAnnaB, <<>>, Phone1Raw, AddrElm),
      Party(SomeId, NameAnnaC, EmailALow, Phone1, AddrElm),
      Party(SomeId, NameZ, EmailB, Phone2, <<>>) }

GroupLists == {AssignIds(t) : t \in SeqsUpTo(GroupPool, MaxParties)}

\* The records an input list of EntityResolver is drawn from.
Record(name, email, phone, address, source_system) ==
    [name |-> name, email |-> email, phone |-> phone, address |-> address,
     source_system |-> source_system]

NameAnnaBLow == <<"a", "n", "n", "a", "-", "b">>
EmailAbX     == <<"a", "b", "@", "x">>
EmailAbXUp   == <<"A", "B", "@", "x">>
EmailAX      == <<"a", "@", "x">>
Phone12      == <<"1", "2">>
PhoneOnly2   == <<"2">>
SourceCrm    == <<"crm">>

\* Records with some keys missing, records with every key, two records
\* whose e-mails coincide after normalisation, and a record with a null.
RecordPool ==
    { Record(NoKey, NoKey, Phone12, NoKey, SourceCrm),
      Record(NoKey, EmailAbX, PhoneOnly2, NoKey, NoKey),
      Record(NoKey, EmailAX, NoKey, NoKey, SourceCrm),
      Record(NameAnnaB, <<>>, <<>>, AddrElm, SourceCrm),
      Record(NameAnnaBLow, EmailAbXUp, <<>>, <<>>, NoKey),
      Record(NameZ, None, <<>>, <<>>, SourceCrm) }

RecordLists == SeqsUpTo(RecordPool, MaxParties)

\* Records for the entity type: a name of two words with "co" inside the
\* second, a name whose second word is "CO", a name of two words without
\* any indicator, a name of one word, and a record without a name.
NameAlCox == <<"A", "l", " ", "C", "o", "x">>
NameAlCo  == <<"A", "l", " ", "C", "O">>

TypePool ==
    { Record(NameAlCox, NoKey, Phone12, NoKey, SourceCrm),
      Record(NameAlCo, NoKey, PhoneOnly2, NoKey, SourceCrm),
      Record(NameAnnaB, NoKey, Phone12, NoKey, SourceCrm),
      Record(NameZ, NoKey, Phone12, NoKey, SourceCrm),
      Record(NoKey, NoKey, Phone12, NoKey, SourceCrm) }

TypeLists == SeqsUpTo(TypePool, MaxParties)

\* The values of source_system, and the orders a set of them can be listed in.
SourceValues == {SourceCrm, SourceUnknown}
HashOrders ==
    {o \in [1..Cardinality(SourceValues) -> SourceValues] : Range(o) = SourceValues}

\* config/resolution_config.yaml as the resolver loads it, with a given
\* overall_threshold (thousandths); the weights of the algorithms in tenths.
Config(overall_threshold) ==
    [normalize_names |-> TRUE, lowercase |-> TRUE, standardize_phone |-> TRUE,
     extract_address_components |-> TRUE,
     name_algorithms |->
        << [type |-> "fuzzy", method |-> "token_sort_ratio", weight |-> 5],
           [type |-> "fuzzy", method |-> "partial_ratio", weight |-> 5] >>,
     address_algorithms |->
        << [method |-> "token_set_ratio", weight |-> 5],
           [method |-> "partial_ratio", weight |-> 5] >>,
     overall_threshold |-> overall_threshold]

\* The overall_threshold of the default configuration, and a lower one.
DefaultThreshold == 700
Thresholds == {600, DefaultThreshold}

\* ------------------------------------------------------------------ state
VARIABLES
    parties,           \* the list handed to resolve_entities_fast
    entity_counter,    \* FastEntityResolver.entity_counter
    runs,              \* what each call on this resolver returned, in order
    records,           \* the list handed to EntityResolver.resolve_entities
    now,               \* the clock datetime.now() reads
    er_runs,           \* the calls of resolve_entities made so far, in order
    pc,                \* where run_full_pipeline stands
    pipeline_entities, \* EntityResolutionPipeline.entities
    entity_mapping,    \* EntityResolutionPipeline.entity_mapping
    features_df,       \* EntityResolutionPipeline.features_df
    files,             \* the output files written so far
    party_list,        \* the list handed to PartyEntityResolver
    entity_groups,     \* what each call of _find_entity_groups returned, in order
    algorithms,        \* config['resolution']['algorithms']['name'] of a resolver
    name_sims          \* the calls of _calculate_name_similarity on it, in order

fastVars == <<parties, entity_counter, runs>>
erVars == <<records, now, er_runs>>
pipelineVars == <<pc, pipeline_entities, entity_mapping, features_df, files>>
partyVars == <<party_list, entity_groups>>
nameVars == <<algorithms, name_sims>>
vars == <<parties, entity_counter, runs, records, now, er_runs,
          pc, pipeline_entities, entity_mapping, features_df, files,
          party_list, entity_groups, algorithms, name_sims>>

\* No FastEntityResolver, no EntityResolver call, no pipeline in this run.
NoFast == parties = <<>> /\ entity_counter = 0 /\ runs = <<>>
NoResolver == records = <<>> /\ now = 0 /\ er_runs = <<>>
NoPipeline ==
    /\ pc = "none" /\ pipeline_entities = <<>> /\ entity_mapping = {}
    /\ features_df = "None" /\ files = {}

NoParty == party_list = <<>> /\ entity_groups = <<>>

\* No call of _calculate_name_similarity on its own in this run.
NoName == algorithms = <<>> /\ name_sims = <<>>

\* FastEntityResolver.__init__, and the input of the batch.
InitFast ==
    /\ parties \in InputLists
    /\ entity_counter = 0
    /\ runs = <<>>
    /\ NoResolver /\ NoPipeline /\ NoParty /\ NoName

\* One call resolver.resolve_entities_fast(parties); the caller keeps the
\* list, which holds the party dicts as the call left them.
ResolveEntitiesFast ==
    /\ Len(runs) < MaxRuns
    /\ LET r == resolve_entities_fast(parties, entity_counter)
       IN /\ runs' = Append(runs, [raised |-> r.raised, entities |-> r.entities])
          /\ entity_counter' = r.counter
    /\ parties' = PartiesAfter(parties)
    /\ UNCHANGED <<erVars, pipelineVars, partyVars, nameVars>>

NextFast == ResolveEntitiesFast

SpecFast == InitFast /\ [][NextFast]_vars

\* A fresh resolver and a batch of the scenarios' parties.
InitScenario ==
    /\ parties \in ScenarioLists
    /\ entity_counter = 0
    /\ runs = <<>>
    /\ NoResolver /\ NoPipeline /\ NoParty /\ NoName

SpecScenario == InitScenario /\ [][NextFast]_vars

\* -------------------------------------------------- PartyEntityResolver
\* PartyEntityResolver.__init__, and the input of the batch.
InitParty ==
    /\ party_list \in GroupLists
    /\ entity_groups = <<>>
    /\ NoFast /\ NoResolver /\ NoPipeline /\ NoName

\* One call self._find_entity_groups(processed_parties), as resolve_entities
\* makes it.
FindEntityGroups ==
    /\ Len(entity_groups) < MaxRuns
    /\ LET processed_parties ==
               AsTuple([i \in 1..Len(party_list) |->
                   PartyEntityResolver_preprocess_party(party_list[i])])
       IN entity_groups' = Append(entity_groups,
                                  find_entity_groups(processed_parties, 1, <<>>, {}))
    /\ UNCHANGED <<party_list, fastVars, erVars, pipelineVars, nameVars>>

NextParty == FindEntityGroups
SpecParty == InitParty /\ [][NextParty]_vars

\* ------------------------------------------------------- EntityResolver
\* The input list, the clock at its start, no call made.
InitER ==
    /\ records \in RecordLists
    /\ now = 0
    /\ er_runs = <<>>
    /\ NoFast /\ NoPipeline /\ NoParty /\ NoName

\* Time passes between one call and the next.
Tick ==
    /\ now < Len(er_runs)
    /\ now' = now + 1
    /\ UNCHANGED <<records, er_runs, fastVars, pipelineVars, partyVars, nameVars>>

\* One call EntityResolver(config).resolve_entities(records), in a process
\* whose set iteration lists the sources in hash_order.  Two calls are
\* compared with each other, so two are made.
ResolveEntities ==
    /\ Len(er_runs) < 2
    /\ \E overall_threshold \in Thresholds :
          LET config    == Config(overall_threshold)
              clustered == ClusterRecords(records, config)
          IN \E hash_order \in HashOrders :
          LET r == EntitiesOf(clustered, config, now, hash_order)
          IN er_runs' = Append(er_runs, [overall_threshold |-> overall_threshold] @@ r)
    /\ UNCHANGED <<records, now, fastVars, pipelineVars, partyVars, nameVars>>

NextER == Tick \/ ResolveEntities

SpecER == InitER /\ [][NextER]_vars

\* The same over the records for the entity type.
InitType ==
    /\ records \in TypeLists
    /\ now = 0
    /\ er_runs = <<>>
    /\ NoFast /\ NoPipeline /\ NoParty /\ NoName

SpecType == InitType /\ [][NextER]_vars

\* Records that carry an e-mail only, two of them with one domain and
\* local parts that have nothing in common, and a record with a phone only.
EmailCdX == <<"c", "d", "@", "x">>

TiePool ==
    { Record(NoKey, EmailAbX, NoKey, NoKey, SourceCrm),
      Record(NoKey, EmailCdX, NoKey, NoKey, SourceCrm),
      Record(NoKey, EmailAX, NoKey, NoKey, SourceCrm),
      Record(NoKey, NoKey, Phone12, NoKey, SourceCrm) }

TieLists == SeqsUpTo(TiePool, MaxParties)

InitTie ==
    /\ records \in TieLists
    /\ now = 0
    /\ er_runs = <<>>
    /\ NoFast /\ NoPipeline /\ NoParty /\ NoName

SpecTie == InitTie /\ [][NextER]_vars

\* ------------------------------- EntityResolver._calculate_name_similarity
\* The weights a configuration gives the two name algorithms, in tenths,
\* and the configured algorithms with such weights.
NameWeights == {2, 5, 10}
NameAlgorithms(w1, w2) ==
    << [type |-> "fuzzy", method |-> "token_sort_ratio", weight |-> w1],
       [type |-> "fuzzy", method |-> "partial_ratio", weight |-> w2] >>

\* The names the function is called with: normalised names, and ''.
NamePool ==
    {<<>>} \cup {StrLower(CollapseStrip(SubNonWord(n))) : n \in {NameZ, NameAnnaB, NameAnnaC}}

\* A resolver constructed with some positive weights.
InitName ==
    /\ \E w1, w2 \in NameWeights : algorithms = NameAlgorithms(w1, w2)
    /\ name_sims = <<>>
    /\ NoFast /\ NoResolver /\ NoPipeline /\ NoParty

\* One call self._calculate_name_similarity(name1, name2).
CalculateNameSimilarity ==
    /\ Len(name_sims) < MaxRuns
    /\ \E name1, name2 \in NamePool :
          name_sims' = Append(name_sims,
              [name1 |-> name1, name2 |-> name2,
               similarity |-> calculate_name_similarity(name1, name2,
                                                        [name_algorithms |-> algorithms])])
    /\ UNCHANGED <<algorithms, fastVars, erVars, pipelineVars, partyVars>>

NextName == CalculateNameSimilarity
SpecName == InitName /\ [][NextName]_vars

\* ----------------------------------------------- EntityResolutionPipeline
\* The files the pipeline writes.
EntitiesCsv == "output/resolved_entities.csv"
FeaturesCsv == "output/entity_features.csv"
ResultFiles ==
    <<"entities_with_features.json", "entities_with_features.csv",
      "entity_mapping.json", "features.csv">>
SummaryJson == "output/pipeline_summary.json"

\* EntityResolutionPipeline.__init__ and the customer file of the run.
InitPipeline ==
    /\ records \in RecordLists
    /\ now = 0
    /\ er_runs = <<>>
    /\ pc = "start"
    /\ pipeline_entities = <<>>
    /\ entity_mapping = {}
    /\ features_df = "None"
    /\ files = {}
    /\ NoFast /\ NoParty /\ NoName

\* Step 1: os.makedirs, _load_customer_data and _load_transaction_data; a
\* file that cannot be read makes the step raise.
LoadData ==
    /\ pc = "start"
    /\ \E ok \in BOOLEAN : pc' = IF ok THEN "loaded" ELSE "failed"
    /\ UNCHANGED <<pipeline_entities, entity_mapping, features_df, files, erVars, fastVars, partyVars, nameVars>>

\* Step 2, _run_entity_resolution: resolve_entities, self.entities, then
\* save_entities_to_csv, which returns without writing when there is no
\* entity and raises when the file cannot be written.
RunEntityResolution ==
    /\ pc = "loaded"
    /\ \E hash_order \in HashOrders : \E written \in BOOLEAN :
          LET r == resolve_entities(records, Config(DefaultThreshold), now, hash_order)
          IN IF r.raised
             THEN /\ pc' = "failed"
                  /\ UNCHANGED <<pipeline_entities, files>>
             ELSE /\ pipeline_entities' = r.entities
                  /\ IF r.entities = <<>>
                     THEN pc' = "resolved" /\ UNCHANGED files
                     ELSE IF written
                     THEN pc' = "resolved" /\ files' = files \cup {EntitiesCsv}
                     ELSE pc' = "failed" /\ UNCHANGED files
    /\ UNCHANGED <<entity_mapping, features_df, erVars, fastVars, partyVars, nameVars>>

\* _create_entity_mapping: every truthy name of a record to the entity_id of
\* the last entity that holds a record of that name.
create_entity_mapping(entities) ==
    LET names_of(e) == {n \in {entities[e].records[k].name : k \in 1..Len(entities[e].records)} :
                           IsPresent(n)}
    IN UNION {{<<n, entities[e].entity_id>> :
                  n \in names_of(e) \ UNION {names_of(f) : f \in (e + 1)..Len(entities)}} :
              e \in 1..Len(entities)}

\* Step 3.
CreateEntityMapping ==
    /\ pc = "resolved"
    /\ entity_mapping' = create_entity_mapping(pipeline_entities)
    /\ pc' = "mapped"
    /\ UNCHANGED <<pipeline_entities, features_df, files, erVars, fastVars, partyVars, nameVars>>

\* Step 4, _generate_graph: every call to the graph store can raise, and
\* upsert_entities reads entity['risk_score'], a key resolve_entities does
\* not set, so it raises KeyError on the first entity.
GenerateGraph ==
    /\ pc = "mapped"
    /\ \E ok \in BOOLEAN :
          pc' = IF ok /\ pipeline_entities = <<>> THEN "graphed" ELSE "failed"
    /\ UNCHANGED <<pipeline_entities, entity_mapping, features_df, files, erVars, fastVars, partyVars, nameVars>>

\* Step 5, _generate_features: generate_all_features reads
\* entity['risk_score'] too; after it self.features_df is set, and
\* save_features_to_csv can raise.
GenerateFeatures ==
    /\ pc = "graphed"
    /\ IF pipeline_entities # <<>>
       THEN pc' = "failed" /\ UNCHANGED <<features_df, files>>
       ELSE \/ pc' = "failed" /\ features_df' = "DataFrame" /\ UNCHANGED files
            \/ pc' = "featured" /\ features_df' = "DataFrame" /\ files' = files \cup {FeaturesCsv}
    /\ UNCHANGED <<pipeline_entities, entity_mapping, erVars, fastVars, partyVars, nameVars>>

\* Step 6, _save_results: the four result files in turn; a write that fails
\* raises after the files before it were written.
SaveResults ==
    /\ pc = "featured"
    /\ \E n \in 0..Len(ResultFiles) :
          /\ files' = files \cup {ResultFiles[k] : k \in 1..n}
          /\ pc' = IF n = Len(ResultFiles) THEN "saved" ELSE "failed"
    /\ UNCHANGED <<pipeline_entities, entity_mapping, features_df, erVars, fastVars, partyVars, nameVars>>

\* Step 7, _generate_summary: the graph statistics or the write can raise.
GenerateSummary ==
    /\ pc = "saved"
    /\ \/ pc' = "failed" /\ UNCHANGED files
       \/ pc' = "done" /\ files' = files \cup {SummaryJson}
    /\ UNCHANGED <<pipeline_entities, entity_mapping, features_df, erVars, fastVars, partyVars, nameVars>>

NextPipeline ==
    \/ LoadData
    \/ RunEntityResolution
    \/ CreateEntityMapping
    \/ GenerateGraph
    \/ GenerateFeatures
    \/ SaveResults
    \/ GenerateSummary

SpecPipeline == InitPipeline /\ [][NextPipeline]_vars

\* ======================================================================
\* Properties of FastEntityResolver (checked under SpecFast)
\* ======================================================================
\* The parties of the input have pairwise distinct identifiers, none missing.
UniqueIds ==
    /\ \A i \in 1..Len(parties) : parties[i].party_id # NoKey
    /\ \A i, j \in 1..Len(parties) : i # j => parties[i].party_id # parties[j].party_id

\* The calls made so far that returned an entity list.
Returned == {r \in 1..Len(runs) : ~runs[r].raised}

\* The places <<entity, position>> where a party_id is listed in a result.
Places(r, pid) ==
    {<<k, m>> \in (1..Len(runs[r].entities)) \X (1..MaxParties + 1) :
        /\ m <= Len(runs[r].entities[k].party_ids)
        /\ runs[r].entities[k].party_ids[m] = pid}

SameEntity(r, i, j) ==
    \E k \in 1..Len(runs[r].entities) :
        {parties[i].party_id, parties[j].party_id} \subseteq Range(runs[r].entities[k].party_ids)

Norm(i) == preprocess_party(parties[i])

\* The blocks (of two or more) that party i of the input falls into, were
\* every party left to the fuzzy stage.
SharedBlocksOf(i) ==
    LET pp     == AsTuple([k \in 1..Len(parties) |-> Norm(k)])
        blocks == create_smart_blocks(pp, Indices(Len(parties)))
    IN {b \in 1..Len(blocks) : i \in Range(blocks[b].parties) /\ Len(blocks[b].parties) >= 2}

ExactMatchAbsorption_C2 ==
    \A r \in Returned : UniqueIds =>
        \A i, j \in 1..Len(parties) :
            (i < j /\ (\/ (Norm(i).email_normalized # <<>>
                           /\ Norm(i).email_normalized = Norm(j).email_normalized)
                       \/ (Norm(i).phone_normalized # <<>>
                           /\ Norm(i).phone_normalized = Norm(j).phone_normalized)))
            => SameEntity(r, i, j)

\* C4 (each batch run starts fresh), as claimed: two calls in a row on one
\* resolver with the same input return the same entity sequence.
BatchRunStartsFresh_C4 ==
    (Len(runs) >= 2 /\ ~runs[1].raised /\ ~runs[2].raised) => runs[2].entities = runs[1].entities

\* The positions in the input of the members of an entity (unique ids).
MembersOf(e) ==
    AsTuple([m \in 1..Len(e.party_ids) |->
        CHOOSE i \in 1..Len(parties) : parties[i].party_id = e.party_ids[m]])

\* The sum of calculate_similarity_fast over the unordered pairs of a group.
RECURSIVE PairSum(_, _, _)
PairSum(group, i, j) ==
    IF i >= Len(group) THEN 0
    ELSE IF j > Len(group) THEN PairSum(group, i + 1, i + 2)
    ELSE calculate_similarity_fast(Norm(group[i]), Norm(group[j])) + PairSum(group, i, j + 1)

\* C6 (Confidence bounds): every emitted entity's confidence lies in [0, 1];
\* with one member it is exactly 0.7; with n >= 2 members it is
\* min(mean pairwise similarity + min(0.05 n, 0.2), 1.0).
ConfidenceBounds_C6 ==
    \A r \in Returned : UniqueIds =>
        \A k \in 1..Len(runs[r].entities) :
            LET e   == runs[r].entities[k]
                n   == Len(e.party_ids)
                num == e.confidence_score[1]
                den == e.confidence_score[2]
                np  == (n * (n - 1)) \div 2
                sum == PairSum(MembersOf(e), 1, 2)
            IN /\ den > 0 /\ 0 <= num /\ num <= 1000 * den
               /\ n = 1 => num = 700 * den
               /\ n >= 2 => num * np = den * Min(sum + Min(50 * n, 200) * np, 1000 * np)

\* C6's case: one result with a single-member entity and a larger entity
\* whose members are similar to a degree strictly between 0 and 1.
ConfidenceBounds_C6_Witness ==
    \E r \in Returned : UniqueIds /\
        /\ \E k \in 1..Len(runs[r].entities) : Len(runs[r].entities[k].party_ids) = 1
        /\ \E k \in 1..Len(runs[r].entities) :
              /\ Len(runs[r].entities[k].party_ids) >= 2
              /\ PairSum(MembersOf(runs[r].entities[k]), 1, 2) > 0
              /\ runs[r].entities[k].confidence_score[1] < 1000 * runs[r].entities[k].confidence_score[2]

\* A party whose name, e-mail, phone and address are all empty or null.
AllEmpty(i) == \A f \in {"name", "email", "phone", "address"} : parties[i][f] \in {<<>>, None}

\* C7 (Empty-field robustness): in every returned result, a party with every
\* field empty or null is the only member of its entity, which has
\* confidence 0.7 and empty resolved name, e-mail, phone and address.
EmptyFieldRobustness_C7 ==
    \A r \in Returned : UniqueIds =>
        \A i \in 1..Len(parties) : AllEmpty(i) =>
            \E k \in 1..Len(runs[r].entities) :
                LET e == runs[r].entities[k]
                IN /\ e.party_ids = <<parties[i].party_id>>
                   /\ e.confidence_score = <<700, 1>>
                   /\ e.resolved_name = <<>> /\ e.resolved_email = <<>>
                   /\ e.resolved_phone = <<>> /\ e.resolved_address = <<>>

\* C7's case: a returned result over an empty party, a null party and a
\* party with fields.
EmptyFieldRobustness_C7_Witness ==
    /\ Returned # {} /\ UniqueIds /\ Len(parties) = 3
    /\ \E i, j \in 1..Len(parties) :
          /\ i # j /\ AllEmpty(i) /\ AllEmpty(j)
          /\ parties[i].name = <<>> /\ parties[j].name = None
    /\ \E i \in 1..Len(parties) : ~AllEmpty(i)

\* C8 (a record without identifier fails the run), as claimed: when some
\* party has no party_id key, or an empty or null party_id, the call raises.
MissingIdFailsRun_C8 ==
    \A r \in 1..Len(runs) :
        (\E i \in 1..Len(parties) : parties[i].party_id \in {NoKey, <<>>, None})
        => runs[r].raised

\* The number a string of decimal digits writes.
RECURSIVE DecValue(_)
DecValue(ds) ==
    IF ds = <<>> THEN 0
    ELSE 10 * DecValue(SubSeq(ds, 1, Len(ds) - 1))
         + (CHOOSE d \in 0..9 : DigitChar[d] = ds[Len(ds)])

\* C10 (contiguous identifiers): the first call on a fresh resolver, when it
\* returns N entities, gives the k-th of them the identifier "E" followed by
\* k written with six digits: E000001 .. E<N>, no gaps, no repeats.
ContiguousIds_C10 ==
    (Len(runs) >= 1 /\ ~runs[1].raised) =>
        LET es == runs[1].entities
        IN /\ \A k \in 1..Len(es) :
                /\ Len(es[k].entity_id) = 7
                /\ es[k].entity_id[1] = "E"
                /\ Range(Tail(es[k].entity_id)) \subseteq Digits
                /\ DecValue(Tail(es[k].entity_id)) = k
           /\ \A k, l \in 1..Len(es) : k # l => es[k].entity_id # es[l].entity_id

\* C10's case: a first call that returned three entities.
ContiguousIds_C10_Witness ==
    Len(runs) >= 1 /\ ~runs[1].raised /\ Len(runs[1].entities) = 3

\* The smallest input position of a member of an entity (unique ids).
MinIndex(e) == CHOOSE i \in Range(MembersOf(e)) : \A j \in Range(MembersOf(e)) : i <= j

\* C11 (Emission order), as claimed: in every returned result the entities
\* come in ascending order of the smallest input position of their members.
EmissionOrder_C11 ==
    \A r \in Returned : UniqueIds =>
        \A k \in 1..(Len(runs[r].entities) - 1) :
            MinIndex(runs[r].entities[k]) < MinIndex(runs[r].entities[k + 1])

\* The party_ids lists of the entities of call r.
Groups(r) == {runs[r].entities[k].party_ids : k \in 1..Len(runs[r].entities)}

\* C13 (Scenario S3), as claimed: for the input R1 "Mary Johnson", R2
\* "Mary J Johnson", R3 "Bob Williams", names only, a call returns exactly
\* two entities, {R1, R2} and {R3}.
ScenarioS3_C13 ==
    \A r \in Returned :
        (/\ Len(parties) = 3
         /\ parties[1].name = NameMaryJohnson
         /\ parties[2].name = NameMaryJJohnson
         /\ parties[3].name = NameBobWilliams)
        => /\ Len(runs[r].entities) = 2
           /\ {Range(g) : g \in Groups(r)}
                = {{parties[1].party_id, parties[2].party_id}, {parties[3].party_id}}

\* C14 (Scenario S6), as claimed: for two records with one non-empty
\* normalised phone and the names "A" and "Z", a call returns one entity
\* that holds both, with a confidence of 0.7 or more.
ScenarioS6_C14 ==
    \A r \in Returned :
        (/\ Len(parties) = 2
         /\ {parties[1].name, parties[2].name} = {NameA, NameZ}
         /\ Norm(1).phone_normalized # <<>>
         /\ Norm(1).phone_normalized = Norm(2).phone_normalized)
        => /\ Len(runs[r].entities) = 1
           /\ Range(runs[r].entities[1].party_ids) = {parties[1].party_id, parties[2].party_id}
           /\ runs[r].entities[1].confidence_score[1] >= 700 * runs[r].entities[1].confidence_score[2]

\* Party i of the input with its name, e-mail and phone replaced by the
\* normalised values preprocess_party gave it, preprocessed again.
Renormalized(i) ==
    preprocess_party(Party(parties[i].party_id, Norm(i).name_normalized,
                           Norm(i).email_normalized, Norm(i).phone_normalized,
                           parties[i].address))

\* C18, as claimed: preprocess_party applied to the normalised values of a
\* previous call gives the same normalised name, e-mail and phone again.
NormalizationIdempotence_C18 ==
    \A r \in 1..Len(runs) : \A i \in 1..Len(parties) :
        /\ Renormalized(i).name_normalized = Norm(i).name_normalized
        /\ Renormalized(i).email_normalized = Norm(i).email_normalized
        /\ Renormalized(i).phone_normalized = Norm(i).phone_normalized

\* The blocks create_smart_blocks returns in a call over the input: those
\* of the parties that find_exact_matches left.
ResidualBlocks ==
    LET pp        == AsTuple([k \in 1..Len(parties) |-> Norm(k)])
        used      == find_exact_matches(pp).used
        remaining == SelectSeq(Indices(Len(pp)), LAMBDA i : i \notin used)
    IN create_smart_blocks(pp, remaining)

\* C20, as claimed: the blocks create_smart_blocks returns after the
\* exact-match absorption are pairwise disjoint.
DisjointBlocks_C20 ==
    \A r \in 1..Len(runs) : \A a, b \in 1..Len(ResidualBlocks) :
        a # b => Range(ResidualBlocks[a].parties) \cap Range(ResidualBlocks[b].parties) = {}

\* calculate_similarity_fast with the early return on a name similarity
\* below 0.3 taken out: the combiner C21 compares the code with.
WithoutEarlyReturn(party1, party2) ==
    LET named == party1.name_normalized # <<>> /\ party2.name_normalized # <<>>
        score == IF named THEN 4 * FuzzRatio(party1.name_normalized, party2.name_normalized)
                 ELSE 0
    IN IF party1.email_normalized # <<>> /\ party2.email_normalized # <<>>
          /\ party1.email_normalized = party2.email_normalized
       THEN score + 300
       ELSE IF party1.phone_normalized # <<>> /\ party2.phone_normalized # <<>>
               /\ party1.phone_normalized = party2.phone_normalized
            THEN score + 200
       ELSE score

\* The sum of WithoutEarlyReturn over the unordered pairs of a group.
RECURSIVE PairSumWithout(_, _, _)
PairSumWithout(group, i, j) ==
    IF i >= Len(group) THEN 0
    ELSE IF j > Len(group) THEN PairSumWithout(group, i + 1, i + 2)
    ELSE WithoutEarlyReturn(Norm(group[i]), Norm(group[j])) + PairSumWithout(group, i, j + 1)

\* C21, as claimed: the early return changes no result of
\* resolve_entities_fast.  The partition is decided by the tests
\* "similarity >= 0.7" and the confidence by the mean of the similarities
\* over an entity's pairs: with the combiner that has no early return every
\* such test comes out the same, and every entity's confidence_score is what
\* that combiner gives for its members.
EarlyTerminationPerformanceOnly_C21 ==
    \A r \in Returned : UniqueIds =>
        /\ \A i, j \in 1..Len(parties) :
              (calculate_similarity_fast(Norm(i), Norm(j)) >= FuzzyThreshold)
                  <=> (WithoutEarlyReturn(Norm(i), Norm(j)) >= FuzzyThreshold)
        /\ \A k \in 1..Len(runs[r].entities) :
              LET e   == runs[r].entities[k]
                  n   == Len(e.party_ids)
                  np  == (n * (n - 1)) \div 2
                  sum == PairSumWithout(MembersOf(e), 1, 2)
              IN n >= 2 =>
                    e.confidence_score[1] * np
                        = e.confidence_score[2] * Min(sum + Min(50 * n, 200) * np, 1000 * np)

\* The positions of the members of an entity that have a name.
NamedMembers(e) == {i \in Range(MembersOf(e)) : IsPresent(parties[i].name)}

InputImmutable_C27 == [][parties' = parties]_vars

\* C27's case: the calls made over three parties of which one has a name,
\* an e-mail and a phone to normalise, the parties holding their five keys.
InputImmutable_C27_Witness ==
    /\ Len(runs) = MaxRuns /\ Len(parties) = 3
    /\ \E i \in 1..Len(parties) :
          IsPresent(parties[i].name) /\ IsPresent(parties[i].email) /\ IsPresent(parties[i].phone)
    /\ \A i \in 1..Len(parties) :
          DOMAIN parties[i] = {"party_id", "name", "email", "phone", "address"}

\* The positions of the parties find_exact_matches leaves to the fuzzy
\* stage, and the groups _find_entity_groups_blocked makes of them.
Residual ==
    LET pp   == AsTuple([k \in 1..Len(parties) |-> Norm(k)])
        used == find_exact_matches(pp).used
    IN {i \in 1..Len(parties) : i \notin used}

FuzzyGroups ==
    find_entity_groups_blocked(AsTuple([k \in 1..Len(parties) |-> Norm(k)]),
                               ResidualBlocks, <<>>, {})

\* The members of an entity have one non-empty normalised value of key f.
SharedKey(e, f) ==
    \E i \in Range(MembersOf(e)) :
        /\ Norm(i)[f] # <<>>
        /\ \A j \in Range(MembersOf(e)) : Norm(j)[f] = Norm(i)[f]

\* C28: the fuzzy stage of resolve_entities_fast merges nothing.  Two
\* residual parties never share a non-empty normalised e-mail or phone and
\* their calculate_similarity_fast is at most 0.4; every group of
\* _find_entity_groups_blocked has one member; every entity of two or more
\* is an exact e-mail bucket or an exact phone bucket.
FuzzyNeverMerges_C28 ==
    runs # <<>> =>
        /\ LET pp == AsTuple([k \in 1..Len(parties) |-> Norm(k)])
           IN \A i, j \in Residual : i < j =>
                 /\ pp[i].email_normalized # <<>> => pp[i].email_normalized # pp[j].email_normalized
                 /\ pp[i].phone_normalized # <<>> => pp[i].phone_normalized # pp[j].phone_normalized
                 /\ calculate_similarity_fast(pp[i], pp[j]) <= 400
        /\ \A g \in 1..Len(FuzzyGroups) : Len(FuzzyGroups[g]) = 1
        /\ \A r \in Returned : UniqueIds =>
              \A k \in 1..Len(runs[r].entities) :
                  Len(runs[r].entities[k].party_ids) >= 2 =>
                      \/ SharedKey(runs[r].entities[k], "email_normalized")
                      \/ SharedKey(runs[r].entities[k], "phone_normalized")

\* C28's case: a returned result in which the fuzzy stage compared two
\* residual parties of one block whose names resemble each other.
FuzzyNeverMerges_C28_Witness ==
    /\ Returned # {} /\ UniqueIds
    /\ \E b \in 1..Len(ResidualBlocks) : \E i, j \in Range(ResidualBlocks[b].parties) :
          /\ i # j
          /\ calculate_similarity_fast(Norm(i), Norm(j)) > 300
          /\ Norm(i).name_normalized # Norm(j).name_normalized

\* ======================================================================
\* Properties of EntityResolver (checked under SpecER)
\* ======================================================================
\* The calls made so far that returned.
ReturnedER == {r \in 1..Len(er_runs) : ~er_runs[r].raised}

\* Records i and j of the input are in one cluster of call r.
SameCluster(r, i, j) ==
    \E c \in 1..Len(er_runs[r].clusters) : {i, j} \subseteq Range(er_runs[r].clusters[c])

\* C3 (Determinism), as claimed: two calls of resolve_entities over the same
\* input list with the same configuration return identical entity
\* sequences, field for field.
Determinism_C3 ==
    \A a, b \in ReturnedER :
        er_runs[a].overall_threshold = er_runs[b].overall_threshold
        => er_runs[a].entities = er_runs[b].entities

\* C5 (Threshold monotonicity), as claimed: two records that are in
\* different clusters under a threshold are in different clusters under
\* every higher threshold.
ThresholdMonotonicity_C5 ==
    \A a, b \in ReturnedER :
        er_runs[a].overall_threshold < er_runs[b].overall_threshold
        => \A i, j \in 1..Len(records) : ~SameCluster(a, i, j) => ~SameCluster(b, i, j)

\* Record i of the input as call r processed it.
Processed(r, i) == preprocess_record(records[i], Config(er_runs[r].overall_threshold))

\* The combiner as C12 states it: the weighted mean of the field
\* similarities over the fields whose normalised value is non-empty on both
\* records; 0 when there is none.
ClaimedCombiner(record1, record2, config) ==
    LET comparable == SelectSeq(<<"name", "email", "phone", "address">>, LAMBDA f :
                          IsPresent(record1[NormalizedKey[f]]) /\ IsPresent(record2[NormalizedKey[f]]))
        score(f) ==
            LET v1 == record1[NormalizedKey[f]]
                v2 == record2[NormalizedKey[f]]
            IN CASE f = "name"    -> calculate_name_similarity(v1, v2, config)
                 [] f = "email"   -> calculate_email_similarity(v1, v2)
                 [] f = "phone"   -> calculate_phone_similarity(v1, v2)
                 [] f = "address" -> calculate_address_similarity(v1, v2, config)
        num == SumSeq(AsTuple([k \in 1..Len(comparable) |-> score(comparable[k]) * FieldWeight[comparable[k]]]))
        den == SumSeq(AsTuple([k \in 1..Len(comparable) |-> FieldWeight[comparable[k]]]))
    IN IF comparable = <<>> THEN 0 ELSE (num * SimUnit) \div den

\* C12 (Record combiner), as claimed: for the processed records of a call
\* that returned, calculate_similarity of any two of them is the weighted
\* mean over the fields that are non-empty on both sides only.
RecordCombiner_C12 ==
    \A r \in ReturnedER : \A i, j \in 1..Len(records) :
        calculate_similarity(Processed(r, i), Processed(r, j), Config(er_runs[r].overall_threshold))
            = ClaimedCombiner(Processed(r, i), Processed(r, j), Config(er_runs[r].overall_threshold))

\* Between two consecutive clustering states a and b of one call: every
\* cluster of a is still there with its members in place, and every record
\* placed in a keeps its cluster and is in no other.
Kept(a, b) ==
    /\ Len(b.clusters) >= Len(a.clusters)
    /\ \A c \in 1..Len(a.clusters) :
          /\ Len(b.clusters[c]) >= Len(a.clusters[c])
          /\ SubSeq(b.clusters[c], 1, Len(a.clusters[c])) = a.clusters[c]
    /\ \A x \in DOMAIN a.record_to_cluster :
          /\ x \in DOMAIN b.record_to_cluster
          /\ b.record_to_cluster[x] = a.record_to_cluster[x]
          /\ \A c \in 1..Len(b.clusters) :
                x \in Range(b.clusters[c]) => c = a.record_to_cluster[x] + 1

\* C19: during resolve_entities a record that was placed is never
\* reassigned, removed from its cluster or added to another, clusters only
\* grow, and the final clusters are pairwise disjoint.
NeverMoved_C19 ==
    \A r \in ReturnedER :
        /\ \A t \in 1..(Len(er_runs[r].steps) - 1) :
              Kept(er_runs[r].steps[t], er_runs[r].steps[t + 1])
        /\ \A c, d \in 1..Len(er_runs[r].clusters) :
              c # d => Range(er_runs[r].clusters[c]) \cap Range(er_runs[r].clusters[d]) = {}

\* A call in which a record joined a cluster that held placed records.
NeverMoved_C19_Witness ==
    \E r \in ReturnedER : \E t \in 1..(Len(er_runs[r].steps) - 1) :
        \E c \in 1..Len(er_runs[r].steps[t].clusters) :
            /\ Len(er_runs[r].steps[t + 1].clusters[c]) > Len(er_runs[r].steps[t].clusters[c])
            /\ Len(er_runs[r].clusters) > 1

\* C22 (Member order), as claimed: in every entity resolve_entities returns
\* the member records are in ascending input order.  The records of entity c
\* are the processed records at the positions cluster c lists, in that
\* order, so the positions of every cluster ascend.
MemberOrder_C22 ==
    \A r \in ReturnedER : \A c \in 1..Len(er_runs[r].clusters) :
        /\ er_runs[r].entities[c].records
              = AsTuple([k \in 1..Len(er_runs[r].clusters[c]) |->
                    Processed(r, er_runs[r].clusters[c][k])])
        /\ \A k \in 1..(Len(er_runs[r].clusters[c]) - 1) :
              er_runs[r].clusters[c][k] < er_runs[r].clusters[c][k + 1]

\* A name that has a business suffix as a whole word, in any case.
HasSuffixWord(name) ==
    \E t \in Range(Split(StrLower(name))) : t \in Range(business_indicators)

\* More than half of the records have a name without a blank or of one token.
MostlySingleToken(rs) ==
    2 * Cardinality({k \in 1..Len(rs) :
            " " \notin Range(NameOf(rs[k])) \/ Len(Split(NameOf(rs[k]))) = 1}) > Len(rs)

\* C24, as claimed: an entity is classified business on account of a suffix
\* only when a member's raw name has one of the suffixes as a whole word; an
\* entity without such a word whose members mostly have names of several
\* tokens is classified individual.
WholeWordClassification_C24 ==
    \A r \in ReturnedER : \A c \in 1..Len(er_runs[r].entities) :
        LET e == er_runs[r].entities[c]
        IN /\ e.entity_type \in {"biz", "ind"}
           /\ e.entity_type = "biz" =>
                 \/ \E k \in 1..Len(e.records) : HasSuffixWord(NameOf(e.records[k]))
                 \/ MostlySingleToken(e.records)

\* The records placed between two consecutive clustering states.
PlacedBetween(a, b) == DOMAIN b.record_to_cluster \ DOMAIN a.record_to_cluster

\* C26, as claimed: when the second pass places a record whose similarity to
\* the one member of an existing cluster equals the merge threshold, the
\* record is merged: it joins a cluster that was there and opens none.
MergeThresholdInclusive_C26 ==
    \A r \in ReturnedER : \A t \in 1..(Len(er_runs[r].steps) - 1) :
        LET a      == er_runs[r].steps[t]
            b      == er_runs[r].steps[t + 1]
            config == Config(er_runs[r].overall_threshold)
        IN \A x \in PlacedBetween(a, b) :
              (/\ Cardinality(PlacedBetween(a, b)) = 1
               /\ \E c \in 1..Len(a.clusters) :
                     /\ Len(a.clusters[c]) = 1
                     /\ calculate_similarity(Processed(r, x), Processed(r, a.clusters[c][1]), config)
                           = config.overall_threshold * SimUnit)
              => /\ Len(b.clusters) = Len(a.clusters)
                 /\ b.record_to_cluster[x] < Len(a.clusters)

\* C25, as claimed: whatever positive weights the name algorithms are
\* configured with, _calculate_name_similarity returns a value in [0, 1], and
\* 0 when a name is empty.
NameSimilarityNormalized_C25 ==
    \A k \in 1..Len(name_sims) :
        /\ 0 <= name_sims[k].similarity /\ name_sims[k].similarity <= 1000
        /\ (name_sims[k].name1 = <<>> \/ name_sims[k].name2 = <<>>)
              => name_sims[k].similarity = 0

\* The processed records of call r, and the groups _find_exact_matches
\* returns for them.
ProcessedRecords(r) == AsTuple([i \in 1..Len(records) |-> Processed(r, i)])
ExactMatchesOf(r) == EntityResolver_find_exact_matches(ProcessedRecords(r))

\* Two processed records have the same non-empty value of key f.
SharesKey(record1, record2, f) == IsPresent(record1[f]) /\ record1[f] = record2[f]

\* C30: the groups _find_exact_matches returns (the clusters of the call
\* when its first pass is over) are pairwise disjoint, have two or more
\* members each, list their members, and are themselves listed, in
\* ascending input order, every member but the first has the first's
\* non-empty normalised e-mail or the first's non-empty normalised phone,
\* and a record with neither an e-mail nor a phone is in no group.
ExactGroups_C30 ==
    \A r \in 1..Len(er_runs) : ~er_runs[r].raised =>
        LET pp     == ProcessedRecords(r)
            groups == ExactMatchesOf(r)
        IN /\ Len(er_runs[r].steps) > Len(groups)
           /\ er_runs[r].steps[Len(groups) + 1].clusters = groups
           /\ \A g \in 1..Len(groups) :
                 /\ Len(groups[g]) >= 2
                 /\ Range(groups[g]) \subseteq 1..Len(records)
                 /\ \A h \in 1..Len(groups) :
                        g < h => /\ Range(groups[g]) \cap Range(groups[h]) = {}
                                 /\ groups[g][1] < groups[h][1]
                 /\ \A m \in 2..Len(groups[g]) :
                        /\ groups[g][m - 1] < groups[g][m]
                        /\ \/ SharesKey(pp[groups[g][1]], pp[groups[g][m]], "email_normalized")
                           \/ SharesKey(pp[groups[g][1]], pp[groups[g][m]], "phone_normalized")
           /\ \A i \in 1..Len(records) :
                 ~IsPresent(pp[i].email_normalized) /\ ~IsPresent(pp[i].phone_normalized)
                 => \A g \in 1..Len(groups) : i \notin Range(groups[g])

\* A call whose first pass made a group of the first and the third record
\* and left out the second, which has an empty e-mail and an empty phone.
ExactGroups_C30_Witness ==
    \E r \in 1..Len(er_runs) :
        /\ ~er_runs[r].raised
        /\ ExactMatchesOf(r) = << <<1, 3>> >>
        /\ er_runs[r].steps[2].clusters = << <<1, 3>> >>
        /\ records[2].email = <<>> /\ records[2].phone = <<>>

\* ======================================================================
\* Properties of EntityResolutionPipeline (checked under SpecPipeline)
\* ======================================================================
\* C9 (Atomic failure in the orchestrator), as claimed: when a step of
\* run_full_pipeline has raised, pipeline.entities is still unset and no
\* resolved-entities file has been written.
AtomicFailure_C9 ==
    pc = "failed" => pipeline_entities = <<>> /\ EntitiesCsv \notin files

\* C17, as claimed: for a record in which one of name, email, phone and
\* address is missing, empty or null, preprocess_record returns without
\* raising and the field's normalised key is present and the empty string.
MissingFieldsNeverRaise_C17 ==
    \A r \in 1..Len(er_runs) : \A i \in 1..Len(records) :
        \A f \in DOMAIN NormalizedKey :
            records[i][f] \in {NoKey, <<>>, None}
            => /\ ~RecordRaises(records[i], Config(er_runs[r].overall_threshold))
               /\ Processed(r, i)[NormalizedKey[f]] = <<>>

\* ======================================================================
\* Properties of PartyEntityResolver
\* ======================================================================
ProcessedParty(i) == PartyEntityResolver_preprocess_party(party_list[i])

\* The parties at positions i and j are in one group of call c.
SameGroup(c, i, j) ==
    \E k \in 1..Len(entity_groups[c]) :
        i \in Range(entity_groups[c][k]) /\ j \in Range(entity_groups[c][k])

\* C15, as claimed: in the groups _find_entity_groups returns, any two
\* records whose similarity is 0.70 or more are in the same group.
ConnectedComponents_C15 ==
    \A c \in 1..Len(entity_groups) :
        \A i \in 1..Len(party_list), j \in 1..Len(party_list) :
            PartyEntityResolver_calculate_similarity(ProcessedParty(i), ProcessedParty(j))
                >= GroupThreshold
            => SameGroup(c, i, j)

\* C29: every group _find_entity_groups returns is a star around its first
\* member: the members are listed in ascending input order, so the first is
\* the member with the smallest input index, every other member has
\* similarity 0.7 or more with the first, and the groups are listed in
\* ascending order of their first members.
StarGroups_C29 ==
    \A c \in 1..Len(entity_groups) :
        LET groups == entity_groups[c]
        IN /\ \A k \in 1..Len(groups) :
                 /\ groups[k] # <<>>
                 /\ \A m \in 2..Len(groups[k]) :
                        /\ groups[k][m - 1] < groups[k][m]
                        /\ PartyEntityResolver_calculate_similarity(
                               ProcessedParty(groups[k][1]), ProcessedParty(groups[k][m]))
                               >= GroupThreshold
           /\ \A k \in 2..Len(groups) : groups[k - 1][1] < groups[k][1]

\* A call returned two groups, the first of three members or of two
\* members that are not neighbours in the input, the second opened by a
\* party the first group passed over.
StarGroups_C29_Witness ==
    \E c \in 1..Len(entity_groups) :
        /\ Len(entity_groups[c]) >= 2
        /\ Len(entity_groups[c][1]) >= 2
        /\ entity_groups[c][1][2] > entity_groups[c][1][1] + 1
        /\ entity_groups[c][2][1] = entity_groups[c][1][1] + 1

====
